---- MODULE Spec2Model ----
(***************************************************************************)
(* Verification model of the PSCI bridge package (bridge_psci):            *)
(*   config.make_params / io.excel_io.load_params_from_excel               *)
(*   model.builder.build_bridge_model and the Analysis generators          *)
(*   analysis.modal.run_modal, analysis.moving_load.run_moving_load        *)
(* Lengths are in mm (the builder multiplies metres by self.m = 1000).     *)
(* Real-valued quantities are exact rationals [n, d].                      *)
(***************************************************************************)
EXTENDS Integers, Sequences, FiniteSets, TLC

VARIABLES
    params,     \* the ParameterSet handed to the core (empty before it is resolved)
    ns,         \* names bound in the module namespace of model/builder.py
    girder1_n,  \* node count of the object bound to the module-level name girder1
    dupOK,      \* solver collaborator: TRUE if it silently ignores a node whose tag exists
    plan,       \* the API calls still to be made by the running script
    pc,         \* position of the single thread of control
    call,       \* the API call in progress, with its arguments
    gi,         \* loop index of the build's girder loop
    dom,        \* the solver's single implicit domain
    buildNo,    \* number of build_bridge_model calls started in this process
    req,        \* node lines requested through ops.node by the current build
    crossbeams, \* station indices for which the current build created a crossbeam
    err,        \* the exception that ended the process ("none" while it runs)
    stages,     \* per API call made, the orchestrator stages it completed, in order
    status,     \* solver status codes returned by ops.analyze and dropped by the caller
    out,        \* artifacts written or returned
    it,         \* index of the next time step of the load-history loop
    hist,       \* node_load_history_g3 / _g4: per line, per node tag, a value per time step
    axles,      \* what the last time step did for each axle
    runs,       \* per finished load-history pass: the node set and the pruned histories
    eigen_value \* what ops.eigen returned to run_moving_load

loadVars == <<it, hist, axles, runs, eigen_value>>

vars == <<params, ns, girder1_n, dupOK, plan, pc, call, gi, dom, buildNo, req,
          crossbeams, err, stages, status, out, it, hist, axles, runs, eigen_value>>

----------------------------------------------------------------------------
(* Bounds of the model *)

MaxGirderNumber == 3

\* largest number of modes asked of ops.eigen
MaxModes == 4

----------------------------------------------------------------------------
(* Exact rational arithmetic standing for the float arithmetic of numpy *)

Abs(i) == IF i < 0 THEN -i ELSE i

RECURSIVE Gcd(_, _)
Gcd(a, b) == IF b = 0 THEN a ELSE Gcd(b, a % b)

Rat(n, d) ==
    IF d = 0 THEN [n |-> (IF n > 0 THEN 1 ELSE IF n < 0 THEN -1 ELSE 0), d |-> 0]
    ELSE LET g == Gcd(Abs(n), Abs(d))
             s == IF d < 0 THEN -1 ELSE 1
         IN  [n |-> (s * n) \div g, d |-> (s * d) \div g]

RI(i) == [n |-> i, d |-> 1]
\* sums over the least common denominator
Lcd(a, b) == IF a.d = 0 \/ b.d = 0 THEN 0 ELSE (a.d \div Gcd(a.d, b.d)) * b.d
RAdd(a, b) ==
    IF Lcd(a, b) = 0 THEN Rat(a.n * b.d + b.n * a.d, 0)
    ELSE Rat(a.n * (Lcd(a, b) \div a.d) + b.n * (Lcd(a, b) \div b.d), Lcd(a, b))
RSub(a, b) == RAdd(a, [n |-> -b.n, d |-> b.d])
RMul(a, b) == Rat(a.n * b.n, a.d * b.d)
RDiv(a, b) == Rat(a.n * b.d, a.d * b.n)
RLt(a, b) == a.n * b.d < b.n * a.d
RLe(a, b) == a.n * b.d <= b.n * a.d
RCeil(a) == -((-a.n) \div a.d)

----------------------------------------------------------------------------
(* Tag arithmetic of the generators *)

GirderTag(g, j) == 1000 * g + j + 1
PanelTag(k, s, j) == k * 100000 + 1000 * s + j + 1
BarrierTag(n, j) == 1000000 + 10000 * n + j + 1
DiaphragmTag(b, n, i) == b * 100 + 10 * n + i
SupportTag(s) == 10000000 + s
SpringTag(s) == 100000000 + s

Division(L) == (L * 5) \div 1000

----------------------------------------------------------------------------
(* config.py: defaults and case overrides *)

Scalar(v) == [list |-> FALSE, v |-> v]
List1(v) == [list |-> TRUE, v |-> v]

Repeat(v, k) == [i \in 1..k |-> v]

free == 0
consts == 1000000
consts1 == 80000
consts_crack == 100000

RowsA1 ==
    << <<free, consts1, consts, 0, 0, 0>>,
       <<free, consts1, consts, 0, 0, 0>>,
       <<free, consts1, consts_crack, 0, 0, 0>>,
       <<free, consts1, consts_crack, 0, 0, 0>>,
       <<free, consts1, consts_crack, 0, 0, 0>>,
       <<free, consts1, consts, 0, 0, 0>> >>

RowsA2 ==
    << <<consts1, free, consts_crack, 0, 0, 0>>,
       <<consts1, free, consts, 0, 0, 0>>,
       <<consts1, free, consts_crack, 0, 0, 0>>,
       <<consts1, free, consts_crack, 0, 0, 0>>,
       <<consts1, free, consts_crack, 0, 0, 0>>,
       <<consts1, consts1, consts, 0, 0, 0>> >>

\* np.vstack(rows) * m, elementwise
ScaleRows(rows, m) ==
    [r \in 1..Len(rows) |-> [c \in 1..Len(rows[r]) |-> RMul(RI(rows[r][c]), m)]]

\* Bearing_Stiffness = vstack(A1 * bearing_multiplier, A2)
BearingTable(bm) == ScaleRows(RowsA1, bm) \o ScaleRows(RowsA2, RI(1))

DefaultMultiplier == Rat(3, 10)

DefaultParams ==
    [ Bridge_width      |-> 12500,
      Bridge_skew       |-> 36,
      girder_number     |-> 6,
      Left_Cantilever   |-> 1050,
      Right_Cantilever  |-> 1050,
      girder_spacing    |-> List1(2080),
      girder_length     |-> 29600,
      h1                |-> 170,
      E_girder1         |-> Repeat(28000, 12),
      E_deck1           |-> Repeat(25000, 7),
      thickness1        |-> Repeat(250, 8),
      Bearing_Stiffness |-> BearingTable(DefaultMultiplier),
      bearing_multiplier |-> DefaultMultiplier,
      PE                |-> 600,
      diaphragm1_Ec     |-> Repeat(24000, 5),
      diaphragm2_Ec     |-> Repeat(24000, 5),
      pave_thick        |-> <<80>>,
      numEigen          |-> 3,
      dt                |-> Rat(1, 10),
      velocity_kmh      |-> RI(10),
      girder3_start_tag |-> 3001,
      girder4_start_tag |-> 4001,
      girder_n_nodes    |-> 149 ]

CASE_OVERRIDES ==
    [ baseline |-> [x \in {} |-> 0],
      case1    |-> [x \in {} |-> 0],
      case2    |-> [bearing_multiplier |-> Rat(1, 2)],
      case5    |-> [E_girder1 |-> <<19600, 28000, 28000, 28000, 28000, 28000>>],
      case6    |-> [E_girder1 |-> <<14000, 28000, 28000, 28000, 28000, 28000>>],
      case9    |-> [E_deck1 |-> Repeat(17500, 7)] ]

\* dict.update: keys of ov replace or extend those of base
Update(base, ov) ==
    [k \in (DOMAIN base) \cup (DOMAIN ov) |-> IF k \in DOMAIN ov THEN ov[k] ELSE base[k]]

Without(d, keys) == [k \in (DOMAIN d) \ keys |-> d[k]]

\* make_params(case) for a label of CASE_OVERRIDES
make_params(case) ==
    LET overrides == CASE_OVERRIDES[case]
        rebuilt == IF "bearing_multiplier" \in DOMAIN overrides
                   THEN Update(DefaultParams,
                               [Bearing_Stiffness |-> BearingTable(overrides.bearing_multiplier),
                                bearing_multiplier |-> overrides.bearing_multiplier])
                   ELSE DefaultParams
    IN  Update(rebuilt, Without(overrides, {"bearing_multiplier"}))

----------------------------------------------------------------------------
(* io/excel_io.py: a workbook is its merged key/value sheets and its Cases sheet *)

\* derive_bearing_stiffness, multiplier mode: the stored table times bearing_multiplier
derive_bearing_stiffness(d) ==
    IF "Bearing_Stiffness" \in DOMAIN d /\ "bearing_multiplier" \in DOMAIN d
    THEN Update(d, [Bearing_Stiffness |->
                      [r \in 1..Len(d.Bearing_Stiffness) |->
                         [c \in 1..Len(d.Bearing_Stiffness[r]) |->
                            RMul(d.Bearing_Stiffness[r][c], d.bearing_multiplier)]]])
    ELSE d

CaseKnownToWorkbook(wb, case) == case \in DOMAIN wb.cases

\* lines 244-247 raise in the v3 branch only; the v2 branch (272-273) has no else
ExcelCaseError(wb, case) ==
    wb.v3 /\ ~CaseKnownToWorkbook(wb, case) /\ case \notin {"baseline", "case1"}

\* load_params_from_excel(path, case) for a case that resolves, in either layout
load_params_from_excel(wb, case) ==
    LET base == Update(make_params("baseline"), wb.kv)
        over == IF CaseKnownToWorkbook(wb, case) THEN Update(base, wb.cases[case]) ELSE base
    IN  derive_bearing_stiffness(over)

----------------------------------------------------------------------------
(* Exceptions *)

Exc(type, name) == [type |-> type, name |-> name]
NoErr == Exc("none", "")

----------------------------------------------------------------------------
(* Transverse layout computed by build_bridge_model *)

TanSkew(deg) == IF deg = 0 THEN RI(0) ELSE IF deg = 45 THEN RI(1) ELSE Rat(72654, 100000)

Get(d, key, default) == IF key \in DOMAIN d THEN d[key] ELSE default

MinOf(S) == CHOOSE x \in S : \A y \in S : x <= y

RECURSIVE SortedSeq(_)
SortedSeq(S) == IF S = {} THEN <<>> ELSE <<MinOf(S)>> \o SortedSeq(S \ {MinOf(S)})

\* girder_spacing_cumsum = cumsum(hstack([Left_Cantil, spacing*(nums_girder - 1)]))
girder_spacing_cumsum(d) ==
    LET left == Get(d, "Left_Cantilever", 0)
    IN  <<left, left + d.girder_spacing.v * (d.girder_number - 1)>>

\* slab_thickness_spacing_cumsum = cumsum(hstack([0.0, girder_spacings, Right_Cantilever]))
slab_thickness_spacing_cumsum(d) ==
    LET g == girder_spacing_cumsum(d)
    IN  <<0, g[1], g[2], g[2] + Get(d, "Right_Cantilever", 0)>>

\* np.arange(0, Bridge_width, 1.0), in mm
bridge_width_spacings(d) == {1000 * k : k \in {k \in 0..(d.Bridge_width \div 1000) : 1000 * k < d.Bridge_width}}

SeqRange(q) == {q[i] : i \in DOMAIN q}

\* slab_spacings = unique(sort(hstack([bridge_width_spacings, slab_thickness_spacing_cumsum])))
slab_spacings(d) ==
    SortedSeq(bridge_width_spacings(d) \cup SeqRange(slab_thickness_spacing_cumsum(d)))

\* np.where(np.isin(seams, wanted))[0], as 0-based indices in increasing order
FoundIndices(seams, wanted) ==
    SortedSeq({i - 1 : i \in {i \in DOMAIN seams : seams[i] \in wanted}})

girder_found_indices(d) == FoundIndices(slab_spacings(d), SeqRange(girder_spacing_cumsum(d)))
slab_found_indices(d) == FoundIndices(slab_spacings(d), SeqRange(slab_thickness_spacing_cumsum(d)))

\* seam indices for which deck() and pavement() create a node line
PanelSeams(d) ==
    LET f == slab_found_indices(d)
    IN  IF Len(f) < 2 THEN {} ELSE f[1]..f[Len(f)]

\* crossbeam_index: stations j with girder_length/division*j in crossbeam_list
crossbeam_list == {5000, 10000, 15000, 20000, 25000}

crossbeam_index(d) ==
    LET division == Division(d.girder_length)
    IN  SortedSeq({j \in 0..division :
                     \E c \in crossbeam_list : d.girder_length * j = c * division})

----------------------------------------------------------------------------
(* The solver's domain: node lines, load patterns and time series *)

EmptyDomain ==
    [ lines |-> {}, patterns |-> {}, series |-> {},
      links |-> {}, fixed |-> {}, elements |-> {}, layers |-> {}, recorders |-> {},
      coord |-> <<>>,
      mass |-> <<>>,
      rayleigh |-> [alphaM |-> RI(0), betaK |-> RI(0), betaKinit |-> RI(0), betaKcomm |-> RI(0)] ]

\* a domain that is left as it is
keep(D) == D

\* ops.wipe()
wipe(D) == EmptyDomain

NodeLine(kind, inst, n, b) == [kind |-> kind, inst |-> inst, n |-> n, build |-> b]

\* tag of the idx-th node (0-based) that a generator creates on a line
LineTag(l, idx) ==
    CASE l.kind = "girder"    -> GirderTag(l.inst, idx)
      [] l.kind = "deck"      -> PanelTag(1, l.inst, idx)
      [] l.kind = "pavement"  -> PanelTag(3, l.inst, idx)
      [] l.kind = "barrier"   -> BarrierTag(l.inst, idx)
      [] l.kind = "diaphragm" -> DiaphragmTag(1, l.inst, idx + 1)
      [] l.kind = "support"   -> SupportTag(l.inst)
      [] l.kind = "spring"    -> SpringTag(l.inst)

\* a line's tags are consecutive: first and last tag of the line
LineLo(l) == LineTag(l, 0)
LineHi(l) == LineTag(l, l.n - 1)

Overlap(l, m) == LineLo(l) <= LineHi(m) /\ LineLo(m) <= LineHi(l)

NodeExists(D, tag) == \E l \in D.lines : LineLo(l) <= tag /\ tag <= LineHi(l)

\* ops.node over the lines ls in order; a tag that exists is refused by the
\* solver (the call raises) unless the solver lets it pass
RECURSIVE CreateLines(_, _, _, _)
CreateLines(D, asked, ls, accept) ==
    IF ls = <<>> THEN [dom |-> D, req |-> asked, refused |-> FALSE]
    ELSE LET l == Head(ls)
             clash == \E m \in D.lines : Overlap(l, m)
         IN  IF clash /\ ~accept
             THEN [dom |-> D, req |-> asked \cup {l}, refused |-> TRUE]
             ELSE CreateLines([D EXCEPT !.lines = @ \cup {l}], asked \cup {l}, Tail(ls), accept)

----------------------------------------------------------------------------
(* Names that builder.py reads from its module namespace and never binds *)

LegacyGlobals == {"yt3", "Ep", "z_coef_list", "y_coef_list", "number_tendon",
                  "girder_spacing", "girder_H"}

\* first unbound name among those a code path reads, in reading order
FirstUnbound(names, bound) ==
    IF \E i \in DOMAIN names : names[i] \notin bound
    THEN names[MinOf({i \in DOMAIN names : names[i] \notin bound})]
    ELSE ""

----------------------------------------------------------------------------
(* build_bridge_model, one action per phase *)

Raise(e) ==
    /\ pc' = "raised"
    /\ err' = e

\* lines 616-638: the keys read with p[...] and the float() conversions
UnpackError(d) ==
    IF "Bridge_width" \notin DOMAIN d THEN Exc("KeyError", "Bridge_width")
    ELSE IF "girder_number" \notin DOMAIN d THEN Exc("KeyError", "girder_number")
    ELSE IF "girder_length" \notin DOMAIN d THEN Exc("KeyError", "girder_length")
    ELSE IF "girder_spacing" \notin DOMAIN d THEN Exc("KeyError", "girder_spacing")
    ELSE IF d.girder_spacing.list THEN Exc("TypeError", "")
    ELSE NoErr

BuildUnpack ==
    /\ pc = "b_unpack"
    /\ IF UnpackError(params) # NoErr
       THEN Raise(UnpackError(params))
       ELSE pc' = "b_wipe" /\ err' = err
    /\ UNCHANGED <<loadVars, params, ns, girder1_n, dupOK, plan, call, gi, dom, buildNo, req,
                   crossbeams, stages, status, out>>

BuildWipe ==
    /\ pc = "b_wipe"
    /\ dom' = wipe(dom)
    /\ gi' = 1
    /\ pc' = "b_girder"
    /\ UNCHANGED <<loadVars, params, ns, girder1_n, dupOK, plan, call, buildNo, req,
                   crossbeams, err, stages, status, out>>

\* line 657 and Analysis.girder: what ends the call for girder i, if anything,
\* before its nodes are created
GirderErrorBeforeNodes(d, i, bound) ==
    IF Len(Get(d, "E_girder1", <<>>)) < i THEN Exc("IndexError", "")
    ELSE IF Len(girder_spacing_cumsum(d)) < i THEN Exc("IndexError", "")
    ELSE IF FirstUnbound(<<"yt3", "Ep">>, bound) # ""
         THEN Exc("NameError", FirstUnbound(<<"yt3", "Ep">>, bound))
    ELSE NoErr

\* ... and after them (lines 178-194)
GirderErrorAfterNodes(bound) ==
    IF FirstUnbound(<<"z_coef_list", "y_coef_list", "number_tendon">>, bound) # ""
    THEN Exc("NameError", FirstUnbound(<<"z_coef_list", "y_coef_list", "number_tendon">>, bound))
    ELSE NoErr

imax(d) == Division(d.girder_length) + 1

BuildGirder ==
    /\ pc = "b_girder"
    /\ IF gi > params.girder_number
       THEN /\ pc' = "b_deck"
            /\ UNCHANGED <<gi, dom, req, err>>
       ELSE IF GirderErrorBeforeNodes(params, gi, ns) # NoErr
       THEN /\ Raise(GirderErrorBeforeNodes(params, gi, ns))
            /\ UNCHANGED <<gi, dom, req>>
       ELSE LET made == CreateLines(dom, req,
                                    <<NodeLine("girder", gi, imax(params), buildNo)>>, dupOK)
            IN  /\ dom' = made.dom
                /\ req' = made.req
                /\ IF made.refused THEN Raise(Exc("OpenSeesError", "node")) /\ gi' = gi
                   ELSE IF GirderErrorAfterNodes(ns) # NoErr
                   THEN Raise(GirderErrorAfterNodes(ns)) /\ gi' = gi
                   ELSE pc' = pc /\ err' = err /\ gi' = gi + 1
    /\ UNCHANGED <<loadVars, params, ns, girder1_n, dupOK, plan, call, buildNo,
                   crossbeams, stages, status, out>>

Bands(d) == Len(slab_found_indices(d)) - 1

\* Analysis.deck(1, thickness1, E_deck1, ...): tSlab[k] at line 341, then the
\* averaged thickness list and Ec_slab[k] at lines 354-358
DeckErrorBeforeNodes(d) ==
    IF Len(Get(d, "thickness1", <<>>)) < Bands(d) THEN Exc("IndexError", "") ELSE NoErr

DeckErrorAfterNodes(d) ==
    IF \/ Len(Get(d, "thickness1", <<>>)) < Bands(d) + 1
       \/ Len(Get(d, "E_deck1", <<>>)) < Bands(d)
    THEN Exc("IndexError", "") ELSE NoErr

PanelLines(kind, d, b) ==
    LET seams == SortedSeq(PanelSeams(d))
    IN  [i \in DOMAIN seams |-> NodeLine(kind, seams[i], imax(d), b)]

BuildDeck ==
    /\ pc = "b_deck"
    /\ IF DeckErrorBeforeNodes(params) # NoErr
       THEN Raise(DeckErrorBeforeNodes(params)) /\ UNCHANGED <<dom, req>>
       ELSE LET made == CreateLines(dom, req, PanelLines("deck", params, buildNo), dupOK)
            IN  /\ dom' = made.dom
                /\ req' = made.req
                /\ IF made.refused THEN Raise(Exc("OpenSeesError", "node"))
                   ELSE IF DeckErrorAfterNodes(params) # NoErr
                   THEN Raise(DeckErrorAfterNodes(params))
                   ELSE pc' = "b_barrier" /\ err' = err
    /\ UNCHANGED <<loadVars, params, ns, girder1_n, dupOK, plan, call, gi, buildNo,
                   crossbeams, stages, status, out>>

\* Analysis.barrier(1, slab_spacings[0], 25000, thickness1[0], pave_thick, 0.3, 3.88)
BuildBarrier ==
    /\ pc = "b_barrier"
    /\ LET made == CreateLines(dom, req, <<NodeLine("barrier", 1, imax(params), buildNo)>>, dupOK)
       IN  /\ dom' = made.dom
           /\ req' = made.req
           /\ IF made.refused THEN Raise(Exc("OpenSeesError", "node"))
              ELSE pc' = "b_diaphragm" /\ err' = err
    /\ UNCHANGED <<loadVars, params, ns, girder1_n, dupOK, plan, call, gi, buildNo,
                   crossbeams, stages, status, out>>

\* Analysis.diaphragm(1, number, node, Ec, nums_girder): the name read at line
\* 472, the node line of lines 491-493, then Ec[i-1] for i in 1..nums_girder-1
RECURSIVE Diaphragms(_, _, _, _, _, _, _)
Diaphragms(D, asked, numbers, Ecs, d, bound, accept) ==
    IF numbers = <<>> THEN [dom |-> D, req |-> asked, err |-> NoErr]
    ELSE IF "girder_spacing" \notin bound
    THEN [dom |-> D, req |-> asked, err |-> Exc("NameError", "girder_spacing")]
    ELSE LET made == CreateLines(D, asked,
                        <<NodeLine("diaphragm", Head(numbers), d.girder_number, buildNo)>>, accept)
         IN  IF made.refused
             THEN [dom |-> made.dom, req |-> made.req, err |-> Exc("OpenSeesError", "node")]
             ELSE IF Len(Head(Ecs)) < d.girder_number - 1
             THEN [dom |-> made.dom, req |-> made.req, err |-> Exc("IndexError", "")]
             ELSE Diaphragms(made.dom, made.req, Tail(numbers), Tail(Ecs), d, bound, accept)

\* lines 662-668: the two end diaphragms
BuildDiaphragm ==
    /\ pc = "b_diaphragm"
    /\ LET made == Diaphragms(dom, req, <<1, 2>>,
                              <<Get(params, "diaphragm1_Ec", <<>>), Get(params, "diaphragm2_Ec", <<>>)>>,
                              params, ns, dupOK)
       IN  /\ dom' = made.dom
           /\ req' = made.req
           /\ IF made.err # NoErr THEN Raise(made.err)
              ELSE pc' = "b_crossbeam" /\ err' = err
    /\ UNCHANGED <<loadVars, params, ns, girder1_n, dupOK, plan, call, gi, buildNo,
                   crossbeams, stages, status, out>>

\* lines 670-679: one crossbeam per station found among the x coordinates
BuildCrossbeam ==
    /\ pc = "b_crossbeam"
    /\ LET found == crossbeam_index(params)
           made == Diaphragms(dom, req, [k \in DOMAIN found |-> 2 + k],
                              [k \in DOMAIN found |-> Get(params, "diaphragm2_Ec", <<>>)],
                              params, ns, dupOK)
       IN  /\ dom' = made.dom
           /\ req' = made.req
           /\ IF made.err # NoErr
              THEN Raise(made.err) /\ UNCHANGED crossbeams
              ELSE pc' = "b_spring" /\ err' = err /\ crossbeams' = found
    /\ UNCHANGED <<loadVars, params, ns, girder1_n, dupOK, plan, call, gi, buildNo,
                   stages, status, out>>

SpringLines(d, b) ==
    [k \in 1..(4 * d.girder_number) |->
        NodeLine(IF k % 2 = 1 THEN "support" ELSE "spring", (k + 1) \div 2, 1, b)]

\* lines 681-683: girder_H is read from the module namespace, the rows from
\* np.array(p.get('Bearing_Stiffness'))
SpringError(d, bound) ==
    IF "girder_H" \notin bound THEN Exc("NameError", "girder_H")
    ELSE IF Len(Get(d, "Bearing_Stiffness", <<>>)) < 2 * d.girder_number
    THEN Exc("IndexError", "")
    ELSE NoErr

\* ops.nodeCoord(nd)[0] of a girder node: x_loc + L/division*j (builder.py line 130)
NodeX(D, d, tag) ==
    LET l == CHOOSE m \in D.lines : LineLo(m) <= tag /\ tag <= LineHi(m)
        x_loc == RMul(RI(-girder_spacing_cumsum(d)[l.inst]), TanSkew(Get(d, "Bridge_skew", 0)))
    IN  RAdd(x_loc, Rat(d.girder_length * (tag - LineLo(l)), Division(d.girder_length)))

\* the girder node handed to spring(): the first node of girder i for support
\* 2i-1, the last one for support 2i
GirderEnd(d, s) ==
    IF s % 2 = 1 THEN GirderTag((s + 1) \div 2, 0) ELSE GirderTag(s \div 2, imax(d) - 1)

\* lines 548-554: both nodes of support s take ops.nodeCoord(node)[0] and [1] of
\* the girder node they are given, and z = -int(h)
SpringCoord(d, s) == [xy |-> GirderEnd(d, s), z |-> "-int(girder_H)"]

\* element tags that step by one from the support tag
ZeroLengthsDense(d) ==
    { [tag |-> SupportTag(s) + (k - 1), i |-> SpringTag(s), j |-> SupportTag(s), dir |-> k] :
        s \in 1..(2 * d.girder_number), k \in 1..6 }

\* lines 556-561: six zeroLength elements per support, one per direction
ZeroLengths(d) ==
    { [tag |-> SupportTag(s) + 100 * (k - 1), i |-> SpringTag(s), j |-> SupportTag(s), dir |-> k] :
        s \in 1..(2 * d.girder_number), k \in 1..6 }

\* everything Analysis.spring adds to the domain besides its two nodes
Sprung(D, d) ==
    [D EXCEPT !.elements = @ \cup ZeroLengths(d),
              !.coord = [t \in {SupportTag(s) : s \in 1..(2 * d.girder_number)}
                                 \cup {SpringTag(s) : s \in 1..(2 * d.girder_number)} |->
                            SpringCoord(d, t % 1000)]]

BuildSpring ==
    /\ pc = "b_spring"
    /\ IF params.girder_number >= 1 /\ SpringError(params, ns) # NoErr
       THEN Raise(SpringError(params, ns)) /\ UNCHANGED <<dom, req>>
       ELSE LET made == CreateLines(dom, req, SpringLines(params, buildNo), dupOK)
            IN  /\ dom' = IF made.refused THEN made.dom ELSE Sprung(made.dom, params)
                /\ req' = made.req
                /\ IF made.refused THEN Raise(Exc("OpenSeesError", "node"))
                   ELSE pc' = "b_links" /\ err' = err
    /\ UNCHANGED <<loadVars, params, ns, girder1_n, dupOK, plan, call, gi, buildNo,
                   crossbeams, stages, status, out>>

\* lines 685-711: imax = len(girder1[0]['girder1_centroid']) reads the module
\* namespace; the loops index the girder arrays and girder_found_indices
LinkError(d, bound, n1) ==
    IF "girder1" \notin bound THEN Exc("NameError", "girder1")
    ELSE IF d.girder_number >= 1 /\ n1 > imax(d) THEN Exc("IndexError", "")
    ELSE IF n1 >= 1 /\ Len(girder_found_indices(d)) < d.girder_number THEN Exc("IndexError", "")
    ELSE NoErr

\* ops.rigidLink('beam', r + j, c + j) for j in range(n)
Link(r, c, n) == [r |-> r, c |-> c, n |-> n]

\* lines 686-690: girder i to the deck seam girder_found_indices[i-1], n1 stations
GirderDeckLinks(d, n1, girders) ==
    {Link(GirderTag(i, 0), PanelTag(1, girder_found_indices(d)[i], 0), n1) : i \in girders}

\* lines 692-711: deck edge to barrier, girder ends to springs, diaphragms and
\* crossbeams to girders
OtherLinks(d, n1, found) ==
    {Link(PanelTag(1, 0, 0), BarrierTag(1, 0), n1)}
        \cup {Link(GirderEnd(d, s), SpringTag(s), 1) : s \in 1..(2 * d.girder_number)}
        \cup {Link(DiaphragmTag(1, 1, i), GirderTag(i, 0), 1) : i \in 1..d.girder_number}
        \cup {Link(DiaphragmTag(1, 2, i), GirderTag(i, imax(d) - 1), 1) : i \in 1..d.girder_number}
        \cup {Link(GirderTag(i, found[k]), DiaphragmTag(1, 2 + k, i), 1) :
                 i \in 1..d.girder_number, k \in DOMAIN found}

BuildLinks ==
    /\ pc = "b_links"
    /\ IF LinkError(params, ns, girder1_n) # NoErr
       THEN /\ Raise(LinkError(params, ns, girder1_n))
            \* the first girder is linked up to its last node before j runs off its array
            /\ dom' = IF LinkError(params, ns, girder1_n).type = "IndexError" /\ girder1_n > imax(params)
                      THEN [dom EXCEPT !.links = @ \cup GirderDeckLinks(params, imax(params), {1})]
                      ELSE dom
       ELSE /\ pc' = "b_pavement" /\ err' = err
            /\ dom' = [dom EXCEPT
                         !.links = @ \cup GirderDeckLinks(params, girder1_n, 1..params.girder_number)
                                     \cup OtherLinks(params, girder1_n, crossbeams),
                         !.fixed = @ \cup {SupportTag(s) : s \in 1..(2 * params.girder_number)}]
    /\ UNCHANGED <<loadVars, params, ns, girder1_n, dupOK, plan, call, gi, buildNo, req,
                   crossbeams, stages, status, out>>

\* lines 713-721: Analysis.pavement(3, ...) and the deck-to-pavement links
BuildPavement ==
    /\ pc = "b_pavement"
    /\ LET made == CreateLines(dom, req, PanelLines("pavement", params, buildNo), dupOK)
       IN  /\ dom' = IF made.refused THEN made.dom
                     ELSE [made.dom EXCEPT !.links = @ \cup
                             {Link(PanelTag(1, k, 0), PanelTag(3, k, 0), girder1_n) : k \in PanelSeams(params)}]
           /\ req' = made.req
           /\ IF made.refused THEN Raise(Exc("OpenSeesError", "node"))
              ELSE pc' = "b_return" /\ err' = err
    /\ UNCHANGED <<loadVars, params, ns, girder1_n, dupOK, plan, call, gi, buildNo,
                   crossbeams, stages, status, out>>

\* the stage reached by the API call in progress
Stage(name) == stages' = [stages EXCEPT ![Len(stages)].seq = Append(@, name)]

\* where control goes when build_bridge_model returns to its caller
AfterBuild(fn) ==
    CASE fn = "build"           -> "call"
      [] fn = "run_modal"       -> "m_static1"
      [] fn = "run_moving_load" -> "v_eigen"

\* line 723-724: return BuiltModel(...)
BuildReturn ==
    /\ pc = "b_return"
    /\ Stage("Built")
    /\ pc' = AfterBuild(call.fn)
    /\ UNCHANGED <<loadVars, params, ns, girder1_n, dupOK, plan, call, gi, dom, buildNo, req,
                   crossbeams, err, status, out>>

----------------------------------------------------------------------------
(* Solver collaborator: status codes and node lookups *)

SolverCodes == {0, -3}

Tagged(tag, b) == [tag |-> tag, build |-> b]

----------------------------------------------------------------------------
(* analysis/modal.py: run_modal *)

DefaultCheckNodes == {1075, 2075, 3075, 4075, 5075, 6075}
DefaultLoadNodes == <<3075, 4075>>

StaticPc == <<"m_static1", "m_static2", "m_static3">>
\* a run_modal that goes to the eigen solve after its first static solve
AfterStaticShort == <<"m_eigen", "m_static3", "m_eigen">>

AfterStatic == <<"m_static2", "m_static3", "m_eigen">>

\* Analysis.static_analysis_load(pattern_tag, node, ...) and the nodeDisp reads
\* that follow it in run_modal; the value of ops.analyze(1) is not used
ModalStatic ==
    \E k \in 1..3, rc \in SolverCodes :
        /\ pc = StaticPc[k]
        /\ LET node == call.load_nodes[IF k = 3 THEN 2 ELSE 1]
               reads == IF k = 2 THEN {} ELSE call.check_nodes
           IN  IF ~NodeExists(dom, node)
               THEN /\ Raise(Exc("OpenSeesError", "load"))
                    /\ UNCHANGED <<dom, status, stages>>
               ELSE /\ dom' = [dom EXCEPT !.series = @ \cup {Tagged(k, buildNo)},
                                          !.patterns = @ \cup {Tagged(k, buildNo)}]
                    /\ status' = Append(status, rc)
                    /\ IF \E c \in reads : ~NodeExists(dom, c)
                       THEN Raise(Exc("OpenSeesError", "nodeDisp")) /\ UNCHANGED stages
                       ELSE /\ pc' = AfterStatic[k]
                            /\ err' = err
                            /\ IF k = 3 THEN Stage("StaticProbed") ELSE UNCHANGED stages
        /\ UNCHANGED <<loadVars, params, ns, girder1_n, dupOK, plan, call, gi, buildNo, req,
                       crossbeams, out>>

\* ops.eigen(num_eigen): a failed eigen solve raises out of the call
ModalEigen ==
    \E ok \in BOOLEAN :
        /\ pc = "m_eigen"
        /\ IF ok THEN pc' = "m_persist" /\ err' = err /\ Stage("ModalExtracted")
           ELSE Raise(Exc("OpenSeesError", "eigen")) /\ UNCHANGED stages
        /\ UNCHANGED <<loadVars, params, ns, girder1_n, dupOK, plan, call, gi, dom, buildNo, req,
                       crossbeams, status, out>>

\* lines 79-97: the JSON document, written when output_dir is given; return
ModalPersist ==
    /\ pc = "m_persist"
    /\ IF call.output_dir
       THEN out' = out \cup {"modal_results.json"} /\ Stage("Persisted")
       ELSE UNCHANGED <<out, stages>>
    /\ pc' = "call"
    /\ UNCHANGED <<loadVars, params, ns, girder1_n, dupOK, plan, call, gi, dom, buildNo, req,
                   crossbeams, err, status>>

----------------------------------------------------------------------------
(* analysis/moving_load.py: run_moving_load *)

\* eigenvalues of the first n modes as the solver reports them, in rising order
SolverSpectrum(n) == [k \in 1..n |-> (k + 1) * (k + 1)]

\* line 63-64: eigen_value = ops.eigen(numEigen)
MovingEigen ==
    \E ok \in BOOLEAN :
        /\ pc = "v_eigen"
        /\ IF ok THEN /\ pc' = "v_geometry" /\ err' = err /\ Stage("ModalExtracted")
                      /\ eigen_value' = SolverSpectrum(Get(params, "numEigen", 3))
           ELSE Raise(Exc("OpenSeesError", "eigen")) /\ UNCHANGED <<stages, eigen_value>>
        /\ UNCHANGED <<it, hist, axles, runs, params, ns, girder1_n, dupOK, plan, call, gi, dom, buildNo, req,
                       crossbeams, status, out>>

\* _get_girder_tags raises when the start tag is not a node of the domain
GirderTagsError(D, d) ==
    IF \/ ~NodeExists(D, Get(d, "girder3_start_tag", 3001))
       \/ ~NodeExists(D, Get(d, "girder4_start_tag", 4001))
    THEN Exc("RuntimeError", "") ELSE NoErr

\* ops.getNodeTags() lists the tags in increasing order: the tag that follows t
NextTag(D, t) ==
    LET c == {IF t < LineLo(l) THEN LineLo(l) ELSE t + 1 : l \in {m \in D.lines : t < LineHi(m)}}
    IN  IF c = {} THEN -1 ELSE MinOf(c)

RECURSIVE TagsFrom(_, _, _)
TagsFrom(D, t, n) ==
    IF n <= 0 \/ t = -1 THEN <<>> ELSE <<t>> \o TagsFrom(D, NextTag(D, t), n - 1)

\* _get_girder_tags(start_tag, n_nodes): tags[i0 : i0 + n_nodes]
get_girder_tags(D, start_tag, n_nodes) == TagsFrom(D, start_tag, n_nodes)

RAbs(a) == [n |-> Abs(a.n), d |-> a.d]

MaxOf(S) == CHOOSE x \in S : \A y \in S : y <= x

\* vehicle_loads_n default (line 82-85)
DefaultLoads == <<RI(30650), RI(57350), RI(55410), RI(30650), RI(57350), RI(55410)>>

\* a grid that stops at t_total
TimeStepsNoTail(t_total, dt) == RCeil(RDiv(t_total, dt))

\* line 100: len(np.arange(0, t_total + 5, dt))
TimeSteps(t_total, dt) == RCeil(RDiv(RAdd(t_total, RI(5)), dt))

\* lines 69-100: girder lines, coordinates, vehicle, speed and the time grid
Geometry(D, d, c) ==
    LET girder3 == get_girder_tags(D, Get(d, "girder3_start_tag", 3001), Get(d, "girder_n_nodes", 149))
        girder4 == get_girder_tags(D, Get(d, "girder4_start_tag", 4001), Get(d, "girder_n_nodes", 149))
        x_g3 == [k \in DOMAIN girder3 |-> NodeX(D, d, girder3[k])]
        x_g4 == [k \in DOMAIN girder4 |-> NodeX(D, d, girder4[k])]
        bridge_length == RAbs(RSub(x_g3[Len(x_g3)], x_g3[1]))
        speed == RDiv(RMul(Get(d, "velocity_kmh", RI(10)), RI(1000 * 1000)), RI(3600))
        dt == Get(d, "dt", Rat(1, 10))
        truck_length == Abs(MaxOf(SeqRange(c.vehicle_distances_mm)))
        t_total == RDiv(RAdd(bridge_length, RI(truck_length)), speed)
    IN  [ girder3 |-> girder3, girder4 |-> girder4, x_g3 |-> x_g3, x_g4 |-> x_g4,
          speed |-> speed, dt |-> dt,
          distances |-> c.vehicle_distances_mm, loads |-> c.vehicle_loads_n,
          n_steps |-> TimeSteps(t_total, dt) ]

\* np.searchsorted(a, key), side 'left': the bisection numpy runs
RECURSIVE Bisect(_, _, _, _)
Bisect(a, key, lo, hi) ==
    IF lo >= hi THEN lo
    ELSE LET m == lo + (hi - lo) \div 2
         IN  IF RLt(a[m + 1], key) THEN Bisect(a, key, m + 1, hi) ELSE Bisect(a, key, lo, m)

\* side 'right': the number of entries that are <= key
searchsorted_right(a, key) == Cardinality({k \in DOMAIN a : RLe(a[k], key)})

searchsorted(a, key) == Bisect(a, key, 0, Len(a))

\* the index left as computed
NoClip(v, lo, hi) == v

\* np.clip(v, lo, hi) == minimum(maximum(v, lo), hi)
Clip(v, lo, hi) == LET u == IF v < lo THEN lo ELSE v IN IF u > hi THEN hi ELSE u

\* a[i] with Python's 0-based index, negative indices counting from the end
PyAt(a, i) == a[IF i < 0 THEN Len(a) + i + 1 ELSE i + 1]

\* a clock that is one step ahead
ProgressLate(g, itx) == RMul(g.speed, RMul(RI(itx + 1), g.dt))

\* line 112: progress = speed * t, with t = time_steps[it] = it * dt
Progress(g, itx) == RMul(g.speed, RMul(RI(itx), g.dt))

NoAxle(line, x_axle, load) ==
    [ line |-> line, inSpan |-> FALSE, x |-> x_axle, load |-> load, idx |-> 0,
      xi |-> RI(0), xj |-> RI(0), r |-> RI(0), nd_i |-> 0, nd_j |-> 0,
      add_i |-> RI(0), add_j |-> RI(0) ]

\* lines 114-130 for axle i_ax (0-based) at time step index itx
Axle(g, i_ax, itx) ==
    LET line == IF i_ax < 3 THEN "g3" ELSE "g4"
        x_g == IF i_ax < 3 THEN g.x_g3 ELSE g.x_g4
        girder == IF i_ax < 3 THEN g.girder3 ELSE g.girder4
        progress == Progress(g, itx)
        x_axle == RAdd(RSub(x_g[Len(x_g)], progress), RI(g.distances[i_ax + 1]))
        load == g.loads[i_ax + 1]
    IN  IF ~(RLe(x_g[1], x_axle) /\ RLe(x_axle, x_g[Len(x_g)]))
        THEN NoAxle(line, x_axle, load)
        ELSE LET idx == Clip(searchsorted(x_g, x_axle) - 1, 0, Len(girder) - 2)
                 xi == PyAt(x_g, idx)
                 xj == PyAt(x_g, idx + 1)
                 r == RDiv(RSub(x_axle, xi), RSub(xj, xi))
             IN  [ line |-> line, inSpan |-> TRUE, x |-> x_axle, load |-> load, idx |-> idx,
                   xi |-> xi, xj |-> xj, r |-> r,
                   nd_i |-> PyAt(girder, idx), nd_j |-> PyAt(girder, idx + 1),
                   add_i |-> RMul(load, RSub(RI(1), r)),
                   add_j |-> RMul(load, r) ]

\* node_hist[nd][it] += v
AddAt(h, line, nd, itx, v) == [h EXCEPT ![line][nd][itx + 1] = RAdd(@, v)]

\* the body of the time loop: all axles of zip(distances, loads), in order
RECURSIVE AxleLoop(_, _, _, _, _)
AxleLoop(h, log, g, i_ax, itx) ==
    IF i_ax >= Len(g.distances) \/ i_ax >= Len(g.loads) THEN [hist |-> h, axles |-> log]
    ELSE LET a == Axle(g, i_ax, itx)
             h2 == IF a.inSpan
                   THEN AddAt(AddAt(h, a.line, a.nd_i, itx, a.add_i), a.line, a.nd_j, itx, a.add_j)
                   ELSE h
         IN  AxleLoop(h2, Append(log, a), g, i_ax + 1, itx)

\* np.zeros(len(time_steps)) for every tag of the line
Zeros(tags, n) == [nd \in SeqRange(tags) |-> [k \in 1..n |-> RI(0)]]

\* lines 69-106: the girder lines are looked up and the histories start at zero
MovingGeometry ==
    /\ pc = "v_geometry"
    /\ IF GirderTagsError(dom, params) # NoErr
       THEN Raise(GirderTagsError(dom, params)) /\ UNCHANGED loadVars
       ELSE LET g == Geometry(dom, params, call)
            IN  /\ hist' = [g3 |-> Zeros(g.girder3, g.n_steps), g4 |-> Zeros(g.girder4, g.n_steps)]
                /\ it' = 0
                /\ axles' = <<>>
                /\ runs' = runs
                /\ eigen_value' = eigen_value
                /\ pc' = IF g.n_steps = 0 THEN "v_setup" ELSE "v_history"
                /\ err' = err
    /\ UNCHANGED <<params, ns, girder1_n, dupOK, plan, call, gi, dom, buildNo, req,
                   crossbeams, stages, status, out>>

\* lines 111-130: one pass of `for it, t in enumerate(time_steps)`
MovingHistory ==
    /\ pc = "v_history"
    /\ LET g == Geometry(dom, params, call)
           done == AxleLoop(hist, <<>>, g, 0, it)
       IN  /\ hist' = done.hist
           /\ axles' = done.axles
           /\ it' = it + 1
           /\ runs' = runs
           /\ eigen_value' = eigen_value
           /\ pc' = IF it + 1 >= g.n_steps THEN "v_setup" ELSE pc
    /\ UNCHANGED <<params, ns, girder1_n, dupOK, plan, call, gi, dom, buildNo, req,
                   crossbeams, err, stages, status, out>>

\* np.allclose(values, 0.0): |v| <= 1e-8 for every entry
AllClose0(values) == \A k \in DOMAIN values : Abs(values[k].n) <= values[k].d \div 100000000

\* create_pathseries_from_history(history_dict, girder_id): series and pattern tags
\* a tag for every node of the dict
PathTagsAll(h, girder_id, base) == {base * girder_id + nd : nd \in DOMAIN h}

PathTags(h, girder_id, base) ==
    {base * girder_id + nd : nd \in {n \in DOMAIN h : ~AllClose0(h[n])}}

\* histories are submitted by the first pass of the process only
PrunedOnce(h) ==
    IF runs = <<>> THEN [nd \in {n \in DOMAIN h : ~AllClose0(h[n])} |-> h[nd]]
    ELSE [nd \in {} |-> <<>>]

\* the histories that create_pathseries_from_history submits
Pruned(h) == [nd \in {n \in DOMAIN h : ~AllClose0(h[n])} |-> h[nd]]

\* what a pass has produced: ops.getNodeTags() with the coordinates of the two
\* loaded lines, and the pruned histories
RunRecord(g) ==
    [ vehicle |-> call,
      nodes   |-> {[kind |-> l.kind, inst |-> l.inst, n |-> l.n] : l \in dom.lines},
      x_g3    |-> g.x_g3,
      x_g4    |-> g.x_g4,
      pruned  |-> [g3 |-> Pruned(hist.g3), g4 |-> Pruned(hist.g4)] ]

\* lines 155-156: mid_node = girder[len(girder) // 2]
MidNode(girder) == girder[Len(girder) \div 2 + 1]

\* lines 162-163: a node recorder of the vertical acceleration, writing to a
\* file; written counts the rows handed to the stream, on_disk those in the file
Recorder(file, node) == [file |-> file, node |-> node, written |-> 0, on_disk |-> 0]

\* np.sqrt of an eigenvalue that is a perfect square
Sqrt(v) == CHOOSE r \in 0..v : r * r = v

\* the last mode available
LastMode(n) == n - 1

\* line 138: min(2, len(omega_list) - 1), the 0-based index of the second frequency
SecondMode(n) == IF 2 < n - 1 THEN 2 ELSE n - 1

\* lines 137-142: the four arguments of ops.rayleigh
Rayleigh(ev, zeta) ==
    LET omega_list == [k \in DOMAIN ev |-> Sqrt(ev[k])]
        omega1 == PyAt(omega_list, 0)
        omega2 == PyAt(omega_list, SecondMode(Len(omega_list)))
        alphaM == RDiv(RMul(zeta, RI(2 * omega1 * omega2)), RI(omega1 + omega2))
        betaK == RDiv(RMul(RI(2), zeta), RI(omega1 + omega2))
    IN  [alphaM |-> alphaM, betaK |-> RI(0), betaKinit |-> RI(0), betaKcomm |-> betaK]

\* lines 135-180: analysis options, recorders and the per-node series/patterns
MovingSetup ==
    /\ pc = "v_setup"
    /\ runs' = Append(runs, RunRecord(Geometry(dom, params, call)))
    /\ dom' = [dom EXCEPT
                 !.series = @ \cup {Tagged(t, buildNo) :
                                      t \in PathTags(hist.g3, 3, 1000) \cup PathTags(hist.g4, 4, 1000)},
                 !.patterns = @ \cup {Tagged(t, buildNo) :
                                      t \in PathTags(hist.g3, 3, 2000) \cup PathTags(hist.g4, 4, 2000)},
                 !.rayleigh = Rayleigh(eigen_value, Get(params, "zeta", Rat(15, 1000))),
                 !.recorders =
                     {Recorder("mid_accel_g3.csv", MidNode(Geometry(dom, params, call).girder3)),
                      Recorder("mid_accel_g4.csv", MidNode(Geometry(dom, params, call).girder4))}]
    /\ pc' = "v_analyze"
    /\ Stage("TransientConfigured")
    /\ UNCHANGED <<it, hist, axles, eigen_value, params, ns, girder1_n, dupOK, plan, call, gi, buildNo, req,
                   crossbeams, err, status, out>>

\* every recorder has been handed a row for each step done; its stream is
\* still open, and whether the rows have reached the file is up to the stream
RecordedOpen(rs, steps, flushed) ==
    {[r EXCEPT !.written = steps, !.on_disk = IF r.file \in flushed THEN steps ELSE 0] : r \in rs}

\* line 185: ops.analyze(len(time_steps), dt); its value is not used. The
\* solver stops at the first step that fails (here the first or the last one)
MovingAnalyze ==
    \E rc \in SolverCodes, early \in BOOLEAN,
       flushed \in SUBSET {"mid_accel_g3.csv", "mid_accel_g4.csv"} :
        /\ pc = "v_analyze"
        /\ rc = 0 => ~early
        /\ LET n == Geometry(dom, params, call).n_steps
               steps == IF rc = 0 THEN n ELSE IF early \/ n = 0 THEN 0 ELSE n - 1
           IN  dom' = [dom EXCEPT !.recorders = RecordedOpen(@, steps, flushed)]
        /\ status' = Append(status, rc)
        /\ pc' = "v_return"
        /\ Stage("TransientRun")
        /\ UNCHANGED <<loadVars, params, ns, girder1_n, dupOK, plan, call, gi, buildNo, req,
                       crossbeams, err, out>>

\* lines 190-209: the two CSV paths are returned; the locals of the call are gone
MovingReturn ==
    /\ pc = "v_return"
    /\ out' = out \cup {"mid_accel_g3.csv", "mid_accel_g4.csv"}
    /\ Stage("Persisted")
    /\ pc' = "call"
    /\ it' = 0
    /\ hist' = [g3 |-> <<>>, g4 |-> <<>>]
    /\ axles' = <<>>
    /\ eigen_value' = <<>>
    /\ UNCHANGED <<runs, params, ns, girder1_n, dupOK, plan, call, gi, dom, buildNo, req,
                   crossbeams, err, status>>

----------------------------------------------------------------------------
(* Inputs: case labels, workbooks, caller-built dicts, scripts *)

NoParams == [x \in {} |-> 0]
EmptyKv == [x \in {} |-> 0]

CaseLabels == {"baseline", "case1", "case2", "case5", "case6", "case9", "case3"}

GirderLengths == {1000, 5000, 1100, 200000}

\* key/value sheets filled in by a user: scalar girder spacing, no skew, tags and
\* node count of the two loaded lines chosen for a bridge of n girders
GeometrySheet(n, L) ==
    [ girder_number     |-> n,
      girder_length     |-> L,
      girder_spacing    |-> Scalar(2080),
      Bridge_skew       |-> 0,
      Bridge_width      |-> 2100 + 2080 * (n - 1),
      girder3_start_tag |-> 1001,
      girder4_start_tag |-> IF n >= 2 THEN 2001 ELSE 1001,
      girder_n_nodes    |-> 4,
      velocity_kmh      |-> Rat(18, 25),
      dt                |-> RI(1) ]

\* a sheet asking for a time step longer than the whole passage
CoarseSheet == [GeometrySheet(2, 1000) EXCEPT !.dt = RI(11)]

\* a sheet whose span has no mesh station at the first crossbeam, and which
\* leaves the start tag of the first loaded line at its default
OffGridSheet == [GeometrySheet(2, 5100) EXCEPT !.girder3_start_tag = 3001]

\* a sheet that runs the first axle group along girder 2 and the second along girder 1
SwappedSheet ==
    [GeometrySheet(2, 1000) EXCEPT !.girder3_start_tag = 2001, !.girder4_start_tag = 1001]

KvSheets ==
    {EmptyKv, CoarseSheet, OffGridSheet, SwappedSheet} \cup {GeometrySheet(n, 1000) : n \in 1..MaxGirderNumber}
                           \cup {GeometrySheet(2, L) : L \in GirderLengths}

CasesSheet ==
    [ baseline |-> [bearing_multiplier |-> Rat(3, 10)],
      case2    |-> [bearing_multiplier |-> Rat(1, 2)] ]

\* v3: multi-sheet layout (Geometry and Cases sheets); otherwise the v2 Inputs sheet
Workbooks == {[kv |-> kv, cases |-> CasesSheet, v3 |-> v] : kv \in KvSheets, v \in BOOLEAN}

\* keys a caller-built dict may lack
AbsentKeys == {"Bridge_width", "girder_spacing", "Bridge_skew", "PE", "h1", "E_girder1",
               "thickness1", "diaphragm1_Ec", "Bearing_Stiffness"}

\* the namespace of builder.py as shipped, with the legacy globals injected,
\* and with a girder1 object injected as well
Namespaces ==
    { [bound |-> {}, girder1_n |-> 0],
      [bound |-> LegacyGlobals, girder1_n |-> 0],
      [bound |-> LegacyGlobals \cup {"girder1"}, girder1_n |-> 2],
      [bound |-> LegacyGlobals \cup {"girder1"}, girder1_n |-> 8] }

BuildCall == [fn |-> "build"]
ModalCall(load, check, dir) ==
    [fn |-> "run_modal", load_nodes |-> load, check_nodes |-> check, output_dir |-> dir]
MovingCall(loads, dists) ==
    [fn |-> "run_moving_load", vehicle_loads_n |-> loads, vehicle_distances_mm |-> dists]
NoCall == [fn |-> "none"]

\* a short truck, so that its axles meet nodes and interiors of a coarse mesh
ShortTruck == <<0, 300, 500, 0, 300, 500>>

\* a single axle of 1e-8 N
FaintLoads == <<Rat(1, 100000000)>>

\* scripts/snapshot.py, run_modal.py, run_case.py, run_excel.py and API callers
Plans ==
    { <<BuildCall>>,
      <<ModalCall(DefaultLoadNodes, DefaultCheckNodes, FALSE)>>,
      <<ModalCall(<<1003, 2003>>, {1003, 2003}, FALSE)>>,
      <<MovingCall(DefaultLoads, ShortTruck), MovingCall(DefaultLoads, ShortTruck)>>,
      <<MovingCall(FaintLoads, <<0>>)>>,
      <<ModalCall(DefaultLoadNodes, DefaultCheckNodes, TRUE), MovingCall(DefaultLoads, ShortTruck)>>,
      <<ModalCall(<<1003, 2003>>, {1003, 2003}, TRUE), MovingCall(DefaultLoads, ShortTruck)>> }

Init ==
    /\ params = NoParams
    /\ \E space \in Namespaces : ns = space.bound /\ girder1_n = space.girder1_n
    /\ dupOK \in BOOLEAN
    /\ plan \in Plans
    /\ pc = "start"
    /\ call = NoCall
    /\ gi = 0
    /\ dom = EmptyDomain
    /\ buildNo = 0
    /\ req = {}
    /\ crossbeams = <<>>
    /\ err = NoErr
    /\ stages = <<>>
    /\ status = <<>>
    /\ out = {}
    /\ it = 0
    /\ hist = [g3 |-> <<>>, g4 |-> <<>>]
    /\ axles = <<>>
    /\ runs = <<>>
    /\ eigen_value = <<>>

\* config.make_params(case)
ResolveMakeParams ==
    \E case \in CaseLabels :
        /\ pc = "start"
        /\ IF case \in DOMAIN CASE_OVERRIDES
           THEN params' = make_params(case) /\ pc' = "call" /\ err' = err
           ELSE Raise(Exc("ValueError", case)) /\ UNCHANGED params
        /\ UNCHANGED <<loadVars, ns, girder1_n, dupOK, plan, call, gi, dom, buildNo, req,
                       crossbeams, stages, status, out>>

\* io.excel_io.load_params_from_excel(path, case)
ResolveExcel ==
    \E wb \in Workbooks, case \in CaseLabels :
        /\ pc = "start"
        /\ IF ~ExcelCaseError(wb, case)
           THEN params' = load_params_from_excel(wb, case) /\ pc' = "call" /\ err' = err
           ELSE Raise(Exc("ValueError", case)) /\ UNCHANGED params
        /\ UNCHANGED <<loadVars, ns, girder1_n, dupOK, plan, call, gi, dom, buildNo, req,
                       crossbeams, stages, status, out>>

\* a dict put together by the caller: a resolved ParameterSet lacking one key
ResolveCallerDict ==
    \E wb \in {w \in Workbooks : w.kv = GeometrySheet(2, 1000)}, key \in AbsentKeys :
        /\ pc = "start"
        /\ params' = Without(load_params_from_excel(wb, "baseline"), {key})
        /\ pc' = "call"
        /\ UNCHANGED <<loadVars, ns, girder1_n, dupOK, plan, call, gi, dom, buildNo, req,
                       crossbeams, err, stages, status, out>>

\* the script makes its next API call; each of them starts with build_bridge_model
Call ==
    /\ pc = "call"
    /\ plan # <<>>
    /\ call' = Head(plan)
    /\ plan' = Tail(plan)
    /\ buildNo' = buildNo + 1
    /\ req' = {}
    /\ crossbeams' = <<>>
    /\ stages' = Append(stages, [fn |-> Head(plan).fn, seq |-> <<>>])
    /\ pc' = "b_unpack"
    /\ UNCHANGED <<loadVars, params, ns, girder1_n, dupOK, gi, dom, err, status, out>>

Exit ==
    /\ pc = "call"
    /\ plan = <<>>
    /\ pc' = "done"
    /\ UNCHANGED <<loadVars, params, ns, girder1_n, dupOK, plan, call, gi, dom, buildNo, req,
                   crossbeams, err, stages, status, out>>

Next ==
    \/ ResolveMakeParams
    \/ ResolveExcel
    \/ ResolveCallerDict
    \/ Call
    \/ Exit
    \/ BuildUnpack
    \/ BuildWipe
    \/ BuildGirder
    \/ BuildDeck
    \/ BuildBarrier
    \/ BuildDiaphragm
    \/ BuildCrossbeam
    \/ BuildSpring
    \/ BuildLinks
    \/ BuildPavement
    \/ BuildReturn
    \/ ModalStatic
    \/ ModalEigen
    \/ ModalPersist
    \/ MovingEigen
    \/ MovingGeometry
    \/ MovingHistory
    \/ MovingSetup
    \/ MovingAnalyze
    \/ MovingReturn

Spec == Init /\ [][Next]_vars

----------------------------------------------------------------------------
(* Properties *)

StrictlyIncreasing(x) == \A k \in 1..(Len(x) - 1) : RLt(x[k], x[k + 1])

\* coordinates and tags of the line an axle record belongs to
LineX(a) == IF a.line = "g3" THEN Geometry(dom, params, call).x_g3
            ELSE Geometry(dom, params, call).x_g4
LineNodes(a) == IF a.line = "g3" THEN Geometry(dom, params, call).girder3
                ELSE Geometry(dom, params, call).girder4

RECURSIVE RSum(_, _)
RSum(f, S) ==
    IF S = {} THEN RI(0)
    ELSE LET x == CHOOSE y \in S : TRUE IN RAdd(f[x], RSum(f, S \ {x}))

\* what the time step just done left in a line's histories, over all its nodes
HistTotal(line) == RSum([nd \in DOMAIN hist[line] |-> hist[line][nd][it]], DOMAIN hist[line])

\* the loads of the axles of a line that were within its span at that step
SpanLoad(line) ==
    RSum([k \in DOMAIN axles |-> axles[k].load],
         {k \in DOMAIN axles : axles[k].inSpan /\ axles[k].line = line})

\* C1: for every axle within the span of its line (node coordinates strictly
\* increasing), the bracket index is in 0..n-2, the bracket width is not zero,
\* r is in [0,1], (1-r) + r = 1, and the amounts added to the two bracket nodes
\* total the axle load; the histories of the step hold exactly the in-span loads
C1_InterpolationConservesLoad ==
    axles # <<>> =>
        /\ \A k \in DOMAIN axles :
             LET a == axles[k]
                 x == LineX(a)
             IN  (a.inSpan /\ StrictlyIncreasing(x)) =>
                    /\ a.idx \in 0..(Len(x) - 2)
                    /\ a.xj # a.xi
                    /\ RLe(RI(0), a.r) /\ RLe(a.r, RI(1))
                    /\ RAdd(RSub(RI(1), a.r), a.r) = RI(1)
                    /\ RAdd(a.add_i, a.add_j) = a.load
        /\ \A k \in DOMAIN axles :
             StrictlyIncreasing(LineX(axles[k])) =>
                HistTotal(axles[k].line) = SpanLoad(axles[k].line)

\* a step in which one axle is strictly inside a bracket and another stands on
\* the first node of its line
C1_Witness ==
    /\ \E k \in DOMAIN axles :
          axles[k].inSpan /\ RLt(RI(0), axles[k].r) /\ RLt(axles[k].r, RI(1))
    /\ \E k \in DOMAIN axles : axles[k].inSpan /\ axles[k].x = LineX(axles[k])[1]

\* what the node with tag nd received from axle record a
Received(a, nd) ==
    RAdd(IF a.nd_i = nd THEN a.add_i ELSE RI(0), IF a.nd_j = nd THEN a.add_j ELSE RI(0))

\* C2 (as stated): an axle on a mesh node has far-node weight r = 0 and the
\* whole load goes to that node, for every node index
C2_FarWeightZeroOnNode ==
    \A k \in DOMAIN axles :
        LET a == axles[k]
            x == LineX(a)
            nodes == LineNodes(a)
        IN  (a.inSpan /\ StrictlyIncreasing(x)) =>
               \A j \in DOMAIN x :
                   a.x = x[j] =>
                      a.r = RI(0) /\ Received(a, nodes[j]) = a.load

\* C2 (amended): an axle on mesh node j receives its whole load on that node
\* and the other bracket node receives 0; the chosen bracket is [j-1, j] with
\* r = 1 for every node but the first, and [0, 1] with r = 0 for the first
C2_WholeLoadOnCoincidentNode ==
    \A k \in DOMAIN axles :
        LET a == axles[k]
            x == LineX(a)
            nodes == LineNodes(a)
        IN  (a.inSpan /\ StrictlyIncreasing(x)) =>
               \A j \in DOMAIN x :
                   a.x = x[j] =>
                      /\ Received(a, nodes[j]) = a.load
                      /\ a.idx = (IF j = 1 THEN 0 ELSE j - 2)
                      /\ a.r = (IF j = 1 THEN RI(0) ELSE RI(1))
                      /\ (IF j = 1 THEN a.add_j ELSE a.add_i) = RI(0)

\* an axle standing on a node that is not the first of its line
C2_Witness ==
    \E k \in DOMAIN axles :
        /\ axles[k].inSpan
        /\ \E j \in 2..Len(LineX(axles[k])) : axles[k].x = LineX(axles[k])[j]

\* C3: the node lines one build_bridge_model call asks the solver for have
\* pairwise disjoint tag ranges
C3_TagRangesDisjoint ==
    \A l \in req : \A m \in req : l # m => ~Overlap(l, m)

\* C4: every entry of make_params("case2")'s bearing table is the baseline
\* entry divided by 0.3 and multiplied by 0.5, in all 12 rows and 6 columns
C4_Case2TableRescaled ==
    params = make_params("case2") =>
        \A r \in 1..12 : \A c \in 1..6 :
            params.Bearing_Stiffness[r][c] =
                RMul(RDiv(make_params("baseline").Bearing_Stiffness[r][c], Rat(3, 10)), Rat(1, 2))

IsPrefix(p, q) == Len(p) <= Len(q) /\ \A k \in DOMAIN p : p[k] = q[k]

SixStages == <<"Built", "StaticProbed", "ModalExtracted", "TransientConfigured",
               "TransientRun", "Persisted">>

\* C5 (as stated): every analysis run passes through Built, StaticProbed,
\* ModalExtracted, TransientConfigured, TransientRun, Persisted in that order
C5_SixStagesInOrder ==
    \A k \in DOMAIN stages : stages[k].fn # "build" => IsPrefix(stages[k].seq, SixStages)

ModalStages == <<"Built", "StaticProbed", "ModalExtracted", "Persisted">>
MovingStages == <<"Built", "ModalExtracted", "TransientConfigured", "TransientRun", "Persisted">>

\* C5 (amended): each API call runs on a build of its own; run_modal passes
\* through Built, StaticProbed, ModalExtracted and then Persisted if an output
\* directory was given; run_moving_load passes through Built, ModalExtracted,
\* TransientConfigured, TransientRun, Persisted, without static probing
C5_StagesPerCall ==
    /\ Len(stages) = buildNo
    /\ \A k \in DOMAIN stages :
          CASE stages[k].fn = "build"           -> IsPrefix(stages[k].seq, <<"Built">>)
            [] stages[k].fn = "run_modal"       -> IsPrefix(stages[k].seq, ModalStages)
            [] stages[k].fn = "run_moving_load" -> IsPrefix(stages[k].seq, MovingStages)
    /\ pc \in {"call", "done"} /\ stages # <<>> =>
          LET last == stages[Len(stages)]
          IN  CASE last.fn = "build"           -> last.seq = <<"Built">>
                [] last.fn = "run_modal"       ->
                       last.seq = IF call.output_dir THEN ModalStages
                                  ELSE SubSeq(ModalStages, 1, 3)
                [] last.fn = "run_moving_load" -> last.seq = MovingStages

\* a script that ran run_modal and then run_moving_load to the end
C5_Witness ==
    /\ pc = "done"
    /\ Len(stages) = 2
    /\ stages[1].seq = ModalStages
    /\ stages[2].seq = MovingStages

BuildPcs == {"b_girder", "b_deck", "b_barrier", "b_diaphragm", "b_crossbeam", "b_spring",
             "b_links", "b_pavement", "b_return"}
AnalysisPcs == {"m_static1", "m_static2", "m_static3", "m_eigen", "m_persist",
                "v_eigen", "v_geometry", "v_history", "v_setup", "v_analyze", "v_return"}

\* C6: while a build creates its objects, and during the analysis that follows
\* it, the domain holds nothing that an earlier build or analysis left
C6_BuildStartsFromWipedDomain ==
    pc \in BuildPcs \cup AnalysisPcs =>
        /\ \A l \in dom.lines : l.build = buildNo
        /\ \A t \in dom.series \cup dom.patterns : t.build = buildNo

\* the second build of a process creating nodes, after an analysis that left
\* patterns and series behind
C6_Witness ==
    /\ buildNo = 2
    /\ pc = "b_deck"
    /\ dom.lines # {}
    /\ dom.series = {}

\* C7: a solve that the solver reports as failed ends the run with an error
C7_SolverFailureIsFatal ==
    (\E k \in DOMAIN status : status[k] # 0) => pc = "raised"

\* keys of the ParameterSet that build_bridge_model consumes
BuildKeys == {"Bridge_width", "Bridge_skew", "girder_number", "Left_Cantilever",
              "Right_Cantilever", "girder_spacing", "girder_length", "h1", "E_girder1",
              "E_deck1", "thickness1", "Bearing_Stiffness", "PE", "diaphragm1_Ec",
              "diaphragm2_Ec", "pave_thick"}

\* C8: build_bridge_model returns a model only if every key it consumes is in
\* the ParameterSet
C8_MissingKeyFailsBuild ==
    pc = "b_return" => BuildKeys \subseteq DOMAIN params

\* C9: build_bridge_model returns a model only if every configured crossbeam
\* station within the girder length was found among the stations of the mesh
\* and got its crossbeam
C9_LookupMissFailsBuild ==
    pc = "b_return" =>
        \A c \in crossbeam_list :
            c <= params.girder_length =>
                \E k \in DOMAIN crossbeams :
                    params.girder_length * crossbeams[k] = c * Division(params.girder_length)

----------------------------------------------------------------------------
(* The configuration collaborator on its own: one request, kept in call *)

MakeParamsCall(case) == [fn |-> "make_params", case |-> case]
ExcelCall(wb, case) ==
    [fn |-> "load_params_from_excel", v3 |-> wb.v3, cases |-> DOMAIN wb.cases, case |-> case]

\* config.make_params(case)
ConfigMakeParams ==
    \E case \in CaseLabels :
        /\ pc = "start"
        /\ call' = MakeParamsCall(case)
        /\ IF case \in DOMAIN CASE_OVERRIDES
           THEN params' = make_params(case) /\ pc' = "call" /\ err' = err
           ELSE Raise(Exc("ValueError", case)) /\ UNCHANGED params
        /\ UNCHANGED <<loadVars, ns, girder1_n, dupOK, plan, gi, dom, buildNo, req,
                       crossbeams, stages, status, out>>

\* io.excel_io.load_params_from_excel(path, case), v3 or v2 workbook
ConfigExcel ==
    \E wb \in Workbooks, case \in CaseLabels :
        /\ pc = "start"
        /\ call' = ExcelCall(wb, case)
        /\ IF ~ExcelCaseError(wb, case)
           THEN params' = load_params_from_excel(wb, case) /\ pc' = "call" /\ err' = err
           ELSE Raise(Exc("ValueError", case)) /\ UNCHANGED params
        /\ UNCHANGED <<loadVars, ns, girder1_n, dupOK, plan, gi, dom, buildNo, req,
                       crossbeams, stages, status, out>>

ConfigNext ==
    \/ ConfigMakeParams
    \/ ConfigExcel

ConfigSpec == Init /\ [][ConfigNext]_vars

\* the override table a request is looked up in
OverrideTable(c) == IF c.fn = "make_params" THEN DOMAIN CASE_OVERRIDES ELSE c.cases

\* C11: a request for a case label that has no entry in the override table ends
\* with an error, unless the label is baseline or case1
C11_UnknownCaseRaises ==
    (call.fn \in {"make_params", "load_params_from_excel"}
        /\ call.case \notin OverrideTable(call) \cup {"baseline", "case1"})
    => (pc = "raised" /\ err = Exc("ValueError", call.case))

\* where axle i_ax (0-based) of the vehicle stands at time step index step
AxlePosition(g, i_ax, step) ==
    LET x_g == IF i_ax < 3 THEN g.x_g3 ELSE g.x_g4
    IN  RAdd(RSub(x_g[Len(x_g)], RMul(g.speed, RMul(RI(step), g.dt))), RI(g.distances[i_ax + 1]))

LineAxles(g, line) == {i \in 0..(Len(g.distances) - 1) : (i < 3) = (line = "g3")}

LineCoords(g, line) == IF line = "g3" THEN g.x_g3 ELSE g.x_g4
LineTagsOf(g, line) == IF line = "g3" THEN g.girder3 ELSE g.girder4

\* C12: at every time step done, the history sample of an interior node k of a
\* line is zero unless an axle of that line stands strictly between x[k-1] and
\* x[k+1] at that step
C12_HistoryZeroAwayFromAxles ==
    axles # <<>> =>
        LET g == Geometry(dom, params, call)
        IN  \A line \in {"g3", "g4"} :
                LET x == LineCoords(g, line)
                    tags == LineTagsOf(g, line)
                IN  StrictlyIncreasing(x) =>
                        \A k \in 2..(Len(x) - 1) : \A step \in 1..it :
                            hist[line][tags[k]][step] # RI(0) =>
                                \E i \in LineAxles(g, line) :
                                    /\ RLt(x[k - 1], AxlePosition(g, i, step - 1))
                                    /\ RLt(AxlePosition(g, i, step - 1), x[k + 1])

\* an interior node whose history is zero at the first step (an axle stands on
\* its neighbour), non-zero later, and zero again once the vehicle has left
C12_Witness ==
    /\ axles # <<>>
    /\ LET g == Geometry(dom, params, call)
       IN  \E k \in 2..(Len(g.x_g3) - 1) :
              LET h == hist["g3"][g.girder3[k]]
              IN  /\ AxlePosition(g, 0, 0) = g.x_g3[k + 1]
                  /\ h[1] = RI(0)
                  /\ \E step \in 2..(it - 1) : h[step] # RI(0)
                  /\ h[it] = RI(0)

\* |v| > 1e-8
Significant(v) == Abs(v.n) > v.d \div 100000000

InstalledSeries(gid, nd) == Tagged(1000 * gid + nd, buildNo) \in dom.series
InstalledPattern(gid, nd) == Tagged(2000 * gid + nd, buildNo) \in dom.patterns

\* girder_id passed to create_pathseries_from_history for each line
LineIds == [g3 |-> 3, g4 |-> 4]

\* C13 (as stated): a series and a pattern are installed for a node exactly if
\* its load history has a non-zero sample
C13_InstalledIffNonZero ==
    pc = "v_analyze" =>
        \A line \in {"g3", "g4"} : \A nd \in DOMAIN hist[line] :
            LET nonzero == \E k \in DOMAIN hist[line][nd] : hist[line][nd][k] # RI(0)
            IN  /\ InstalledSeries(LineIds[line], nd) <=> nonzero
                /\ InstalledPattern(LineIds[line], nd) <=> nonzero

\* C13 (amended): a series and a pattern are installed for a node exactly if
\* its load history has a sample of magnitude above 1e-8; a history that is
\* zero throughout is never submitted
C13_InstalledIffSignificant ==
    pc = "v_analyze" =>
        \A line \in {"g3", "g4"} : \A nd \in DOMAIN hist[line] :
            LET some == \E k \in DOMAIN hist[line][nd] : Significant(hist[line][nd][k])
            IN  /\ InstalledSeries(LineIds[line], nd) <=> some
                /\ InstalledPattern(LineIds[line], nd) <=> some

\* the path series are in place; one line carried a faint axle and its nodes
\* were dropped, the other carried none and its histories are zero throughout
C13_Witness ==
    /\ pc = "v_analyze"
    /\ \E nd \in DOMAIN hist["g3"] :
          /\ \E k \in DOMAIN hist["g3"][nd] : hist["g3"][nd][k] # RI(0)
          /\ ~InstalledSeries(3, nd)
    /\ \E nd \in DOMAIN hist["g4"] :
          /\ \A k \in DOMAIN hist["g4"][nd] : hist["g4"][nd][k] = RI(0)
          /\ ~InstalledSeries(4, nd)

\* the axles of zip(distances, loads)
ZipAxles(g) == {i \in 0..(Len(g.distances) - 1) : i < Len(g.loads)}

\* every axle of the vehicle is off the span, past the exit end, at step index step
AllExited(g, step) ==
    \A i \in ZipAxles(g) :
        RLt(AxlePosition(g, i, step), LineCoords(g, IF i < 3 THEN "g3" ELSE "g4")[1])

\* (bridge_length + largest axle offset) / speed + 5
GridEnd(g) ==
    RAdd(RDiv(RAdd(RAbs(RSub(g.x_g3[Len(g.x_g3)], g.x_g3[1])),
                   RI(Abs(MaxOf(SeqRange(g.distances))))), g.speed), RI(5))

\* the grid is 0, dt, 2 dt, ... up to, and not including, GridEnd
GridShape(g) ==
    /\ it = g.n_steps
    /\ g.n_steps >= 1
    /\ RLt(RMul(RI(g.n_steps - 1), g.dt), GridEnd(g))
    /\ RLe(GridEnd(g), RMul(RI(g.n_steps), g.dt))
    /\ \A i \in ZipAxles(g) :
          g.distances[i + 1] = 0 =>
              AxlePosition(g, i, 0)
                  = LineCoords(g, IF i < 3 THEN "g3" ELSE "g4")[Len(LineCoords(g, IF i < 3 THEN "g3" ELSE "g4"))]

\* once every axle has exited, the sample of every node is zero
ZeroAfterExit(g) ==
    \A step \in 1..it :
        AllExited(g, step - 1) =>
            \A line \in {"g3", "g4"} : \A nd \in DOMAIN hist[line] : hist[line][nd][step] = RI(0)

HistoryDone == pc \in {"v_setup", "v_analyze", "v_return"}

\* C14 (as stated): the grid starts at t = 0 with the reference axle on the entry
\* end and runs to 5 s past (bridge_length + largest offset)/speed; with offsets
\* that are not negative every axle has left the span by the last step, and the
\* samples of every step after the last exit are zero
C14_VehicleExitsWithinGrid ==
    HistoryDone =>
        LET g == Geometry(dom, params, call)
        IN  /\ GridShape(g)
            /\ (\A i \in ZipAxles(g) : g.distances[i + 1] >= 0) => AllExited(g, g.n_steps - 1)
            /\ ZeroAfterExit(g)

\* C14 (amended): as above, with the exit of every axle claimed for time steps
\* shorter than the 5 s tail only
C14_VehicleExitsWhenStepBelowTail ==
    HistoryDone =>
        LET g == Geometry(dom, params, call)
        IN  /\ GridShape(g)
            /\ ((\A i \in ZipAxles(g) : g.distances[i + 1] >= 0) /\ RLt(g.dt, RI(5)))
                   => AllExited(g, g.n_steps - 1)
            /\ ZeroAfterExit(g)

\* a passage that is over: an axle loaded a node on the way, the last axle left
\* the span before the last step, and the grid ran on
C14_Witness ==
    /\ HistoryDone
    /\ LET g == Geometry(dom, params, call)
       IN  /\ RLt(g.dt, RI(5))
           /\ \E step \in 1..(it - 2) :
                 /\ ~AllExited(g, step - 1)
                 /\ AllExited(g, step)
                 /\ \E nd \in DOMAIN hist["g3"] : hist["g3"][nd][step] # RI(0)
           /\ AllExited(g, it - 1)

----------------------------------------------------------------------------
(* The damping step of run_moving_load on its own: any damping ratio, any
   number of modes *)

\* numEigen and zeta are set by the caller; the solver returns numEigen
\* eigenvalues, distinct or repeated
DampingEigen ==
    \E n \in 1..MaxModes, z \in {RI(0), Rat(15, 1000), Rat(1, 20)}, repeated \in BOOLEAN :
        /\ pc = "start"
        /\ params' = [numEigen |-> n, zeta |-> z]
        /\ eigen_value' = IF repeated THEN [k \in 1..n |-> 9] ELSE SolverSpectrum(n)
        /\ pc' = "d_rayleigh"
        /\ UNCHANGED <<it, hist, axles, runs, ns, girder1_n, dupOK, plan, call, gi, dom, buildNo, req,
                       crossbeams, err, stages, status, out>>

DampingRayleigh ==
    /\ pc = "d_rayleigh"
    /\ dom' = [dom EXCEPT !.rayleigh = Rayleigh(eigen_value, Get(params, "zeta", Rat(15, 1000)))]
    /\ pc' = "d_done"
    /\ UNCHANGED <<loadVars, params, ns, girder1_n, dupOK, plan, call, gi, buildNo, req,
                   crossbeams, err, stages, status, out>>

DampingNext ==
    \/ DampingEigen
    \/ DampingRayleigh

DampingSpec == Init /\ [][DampingNext]_vars

\* C16: the mass coefficient is zeta*2*w1*w2/(w1+w2) and the stiffness
\* coefficient 2*zeta/(w1+w2), with w1 the first frequency and w2 the third, or
\* the last one when fewer than three are available; a single eigenvalue gives
\* w1 = w2; equal frequencies w give zeta*w and zeta/w; zeta = 0 gives 0 and 0
C16_RayleighCoefficients ==
    pc \in {"d_done", "v_analyze", "v_return"} =>
        LET n == Len(eigen_value)
            w1 == Sqrt(eigen_value[1])
            w2 == Sqrt(eigen_value[IF n >= 3 THEN 3 ELSE n])
            zeta == Get(params, "zeta", Rat(15, 1000))
            r == dom.rayleigh
        IN  /\ RMul(r.alphaM, RI(w1 + w2)) = RMul(zeta, RI(2 * w1 * w2))
            /\ RMul(r.betaKcomm, RI(w1 + w2)) = RMul(RI(2), zeta)
            /\ r.betaK = RI(0) /\ r.betaKinit = RI(0)
            /\ n = 1 => w1 = w2
            /\ w1 = w2 => r.alphaM = RMul(zeta, RI(w1)) /\ r.betaKcomm = RDiv(zeta, RI(w1))
            /\ zeta = RI(0) => r.alphaM = RI(0) /\ r.betaKcomm = RI(0)

\* damping set from more than three distinct modes with a non-zero ratio
C16_Witness ==
    /\ pc = "d_done"
    /\ Len(eigen_value) > 3
    /\ eigen_value[3] # eigen_value[Len(eigen_value)]
    /\ dom.rayleigh.alphaM # RI(0)
    /\ dom.rayleigh.betaKcomm # RI(0)

\* Python's round(num/den) for num >= 0: to the nearest integer, halves to the even one
PyRound(num, den) ==
    LET q == num \div den
        r == num % den
    IN  IF 2 * r < den THEN q
        ELSE IF 2 * r > den THEN q + 1
        ELSE IF q % 2 = 0 THEN q ELSE q + 1

\* C17: every longitudinal line of a girder, a deck or pavement seam or a
\* barrier has round(length_in_meters * 5) + 1 nodes, whatever the girder length
C17_DivisionIsRounded ==
    \A l \in dom.lines :
        l.kind \in {"girder", "deck", "pavement", "barrier"} =>
            l.n = PyRound(params.girder_length * 5, 1000) + 1

\* C18: girder i stands at Left_Cantilever + (i-1)*girder_spacing, which is the
\* offset of a deck seam, and a finished build has linked every girder
\* 1..girder_number to the seam of its own offset at each of its division+1
\* stations, and made no other girder-to-deck link
C18_GirdersLinkedToOwnSeam ==
    LET d == params
        offset(i) == Get(d, "Left_Cantilever", 0) + (i - 1) * d.girder_spacing.v
        seam(i) == CHOOSE k \in 0..(Len(slab_spacings(d)) - 1) : slab_spacings(d)[k + 1] = offset(i)
    IN  /\ \A l \in dom.lines :
              l.kind = "girder" =>
                  /\ girder_spacing_cumsum(d)[l.inst] = offset(l.inst)
                  /\ offset(l.inst) \in SeqRange(slab_spacings(d))
        /\ pc = "b_return" =>
              {k \in dom.links : k.r \in 1001..99999 /\ k.c \in 100001..299999}
                  = {Link(GirderTag(i, 0), PanelTag(1, seam(i), 0), imax(d)) : i \in 1..d.girder_number}

\* C19: a finished build has 2*girder_number supports, one under each end of
\* every girder; the support node and the spring node of a support have the same
\* coordinates and are joined by six zero-length elements, one per DOF 1..6,
\* whose tags are distinct over all supports; the support node is fixed, the
\* spring node is not, and its only rigid link is to its own girder end node
C19_SupportsComplete ==
    pc = "b_return" =>
        LET d == params
            S == 1..(2 * d.girder_number)
            end(s) == IF s % 2 = 1 THEN GirderTag((s + 1) \div 2, 0)
                      ELSE GirderTag(s \div 2, Division(d.girder_length))
        IN  /\ {l.inst : l \in {m \in dom.lines : m.kind = "support"}} = S
            /\ {l.inst : l \in {m \in dom.lines : m.kind = "spring"}} = S
            /\ \A s \in S :
                  /\ dom.coord[SupportTag(s)] = dom.coord[SpringTag(s)]
                  /\ dom.coord[SupportTag(s)].xy = end(s)
                  /\ {e.dir : e \in {f \in dom.elements :
                                        {f.i, f.j} = {SupportTag(s), SpringTag(s)}}} = 1..6
                  /\ SupportTag(s) \in dom.fixed
                  /\ SpringTag(s) \notin dom.fixed
                  /\ {k \in dom.links : SpringTag(s) \in {k.r, k.c}} = {Link(end(s), SpringTag(s), 1)}
            /\ Cardinality(dom.elements) = 6 * Cardinality(S)
            /\ \A e \in dom.elements : \A f \in dom.elements : e.tag = f.tag => e = f
            /\ \A i \in 1..d.girder_number : end(2 * i - 1) # end(2 * i)

\* a two-girder bridge is built: four supports, twenty-four spring elements
C19_Witness ==
    /\ pc = "b_return"
    /\ params.girder_number = 2
    /\ Cardinality(dom.elements) = 24
    /\ Cardinality(dom.fixed) = 4

----------------------------------------------------------------------------
(* The mass lumping of Analysis.girder and Analysis.barrier on its own, in
   units of the mass of one element, rho * A * L / division *)

\* both halves are kept at both ends
mass_all_unreset(n) == [j \in 1..n |-> RAdd(Rat(1, 2), Rat(1, 2))]

\* lines 126-136 and 422-432: mass_before[-1] = 0, mass_after[0] = 0,
\* mass_all = mass_before + mass_after
mass_all(n) ==
    LET mass_before == [[j \in 1..n |-> Rat(1, 2)] EXCEPT ![n] = RI(0)]
        mass_after == [[j \in 1..n |-> Rat(1, 2)] EXCEPT ![1] = RI(0)]
    IN  [j \in 1..n |-> RAdd(mass_before[j], mass_after[j])]

\* girder lengths for which the lumping is looked at, in mm
MassLengths == {400, 600, 1000, 1100, 5000}

\* lines 138-140: ops.mass(1000*girder_number + j + 1, 0, 0, mass_all[j])
LumpGirder ==
    \E L \in MassLengths, g \in 1..MaxGirderNumber :
        /\ pc = "start"
        /\ params' = [girder_length |-> L]
        /\ dom' = [dom EXCEPT !.mass = [first |-> GirderTag(g, 0), all |-> mass_all(Division(L) + 1)]]
        /\ pc' = "k_done"
        /\ UNCHANGED <<loadVars, ns, girder1_n, dupOK, plan, call, gi, buildNo, req,
                       crossbeams, err, stages, status, out>>

\* lines 434-436: ops.mass(1000000 + 10000*number + j + 1, 0, 0, mass_all[j])
LumpBarrier ==
    \E L \in MassLengths :
        /\ pc = "start"
        /\ params' = [girder_length |-> L]
        /\ dom' = [dom EXCEPT !.mass = [first |-> BarrierTag(1, 0), all |-> mass_all(Division(L) + 1)]]
        /\ pc' = "k_done"
        /\ UNCHANGED <<loadVars, ns, girder1_n, dupOK, plan, call, gi, buildNo, req,
                       crossbeams, err, stages, status, out>>

MassNext ==
    \/ LumpGirder
    \/ LumpBarrier

MassSpec == Init /\ [][MassNext]_vars

\* C20 (as stated): every node of a girder or barrier line gets half the mass
\* of each element next to it, and the two end nodes carry no mass
C20_EndNodesCarryNoMass ==
    pc = "k_done" =>
        LET m == dom.mass.all
        IN  /\ \A j \in 2..(Len(m) - 1) : m[j] = RI(1)
            /\ m[1] = RI(0)
            /\ m[Len(m)] = RI(0)

\* C20 (amended): every node of a girder or barrier line gets half the mass of
\* each element next to it: an interior node the mass of one element, each of
\* the two end nodes the mass of half an element; the line as a whole carries
\* the mass of its division elements
C20_HalfElementPerAdjacentNode ==
    pc = "k_done" =>
        LET m == dom.mass.all
            elements(j) == {e \in 1..(Len(m) - 1) : j \in {e, e + 1}}
        IN  /\ Len(m) = Division(params.girder_length) + 1
            /\ \A j \in DOMAIN m : m[j] = Rat(Cardinality(elements(j)), 2)
            /\ m[1] = Rat(1, 2)
            /\ m[Len(m)] = Rat(1, 2)
            /\ RSum(m, DOMAIN m) = RI(Len(m) - 1)

\* a barrier line of more than two elements has been given its masses
C20_Witness ==
    /\ pc = "k_done"
    /\ dom.mass.first = BarrierTag(1, 0)
    /\ Len(dom.mass.all) > 3
    /\ dom.mass.all[2] = RI(1)

----------------------------------------------------------------------------
(* The mass lumping of Analysis.deck and Analysis.pavement on its own, in
   units of rho mm^3 (the density rho is one constant factor of every entry) *)

\* the band of thickness a strip lies in: found[k] <= strip < found[k+1]
BandOf(found, strip) ==
    CHOOSE k \in 1..(Len(found) - 1) : found[k] <= strip /\ strip < found[k + 1]

\* deck(): lines 354 and 376, tSlab = tSlab[:-1]/2 + tSlab[1:]/2, tSlabx = tSlab[k];
\* pavement(): lines 261 and 283, tSlab = tSlab/2 + tSlab/2, tSlabx = tSlab[0]
BandThickness(kind, d, k) ==
    IF kind = "deck" THEN Rat(d.thickness1[k] + d.thickness1[k + 1], 2)
    ELSE Rat(d.pave_thick[1] + d.pave_thick[1], 2)

\* lines 374-382 and 281-289: one volume per shell element, strip by strip over
\* the strips between the first and the last found seam
volume_list(kind, d) ==
    LET seams == slab_spacings(d)
        found == slab_found_indices(d)
        division == Division(d.girder_length)
        strips == found[Len(found)] - found[1]
    IN  [e \in 1..(strips * division) |->
            LET strip == found[1] + (e - 1) \div division
            IN  RMul(RMul(BandThickness(kind, d, BandOf(found, strip)),
                          Rat(d.girder_length, division)),
                     RI(seams[strip + 2] - seams[strip + 1]))]

\* the share of the element before each station only
volume_node_before(v, rows, cols) ==
    [s \in 0..(rows - 1) |-> [j \in 0..cols |->
        RDiv(IF j >= 1 THEN v[s * cols + j] ELSE RI(0), RI(4))]]

\* lines 385-390 and 292-297: a = insert(v, 0, 0) / 4, b = insert(v, len, 0) / 4,
\* a + b, for each of the rows of volume_list1 = reshape(len(spacing) - 1, -1)
volume_node_list(v, rows, cols) ==
    [s \in 0..(rows - 1) |-> [j \in 0..cols |->
        RAdd(RDiv(IF j >= 1 THEN v[s * cols + j] ELSE RI(0), RI(4)),
             RDiv(IF j < cols THEN v[s * cols + j + 1] ELSE RI(0), RI(4)))]]

\* lines 392-397 and 299-304: the same insertion across the rows
volume_node_list1(vn, rows, cols) ==
    [s \in 0..rows |-> [j \in 0..cols |->
        RAdd(IF s >= 1 THEN vn[s - 1][j] ELSE RI(0),
             IF s < rows THEN vn[s][j] ELSE RI(0))]]

\* z of the nodes of a seam: deck() line 341, tSlab[k] / 2 for the seams of
\* band k (the last seam goes with the last band); pavement() line 248,
\* tSlab[0] / 2 + 220
PanelZ(kind, d, seam) ==
    LET found == slab_found_indices(d)
        k == IF seam = found[Len(found)] THEN Len(found) - 1 ELSE BandOf(found, seam)
    IN  IF kind = "deck" THEN Rat(d.thickness1[k], 2)
        ELSE RAdd(Rat(d.pave_thick[1], 2), RI(220))

\* lines 383-400 and 290-307: reshape, distribution, and the ops.mass calls made
\* until nodes[name + str(i)] is asked for a seam that has no node line
PanelMasses(kind, d) ==
    LET v == volume_list(kind, d)
        rows == Len(slab_spacings(d)) - 1
        number == IF kind = "deck" THEN 1 ELSE 3
    IN  IF rows = 0 \/ Len(v) % rows # 0
        THEN [err |-> Exc("ValueError", "reshape"), calls |-> {}]
        ELSE LET cols == Len(v) \div rows
                 m == volume_node_list1(volume_node_list(v, rows, cols), rows, cols)
                 reached == {i \in 0..rows : \A h \in 0..i : h \in PanelSeams(d)}
             IN  [err |-> IF reached = 0..rows THEN NoErr
                          ELSE Exc("KeyError", kind),
                  calls |-> {[i |-> i, j |-> j, tag |-> PanelTag(number, i, j), m |-> m[i][j]] :
                               i \in reached, j \in 0..cols}]

\* span lengths, girder counts and deck thickness profile the lumping is looked at for
PanelLengths == {400, 600, 1000}
PanelGirders == {1, 2, 3}
PanelProfile == <<200, 250, 300, 250, 250, 250, 250, 250>>

\* resolved ParameterSets: sheets whose Bridge_width ends at the right cantilever,
\* and sheets that leave Bridge_width at its default
PanelSheets ==
    LET sheet(n, L) == Update(make_params("baseline"),
                              Update(GeometrySheet(n, L), [thickness1 |-> PanelProfile]))
    IN  {sheet(n, L) : n \in PanelGirders, L \in PanelLengths}
        \cup {[sheet(2, L) EXCEPT !.Bridge_width = 12500] : L \in {1000, 3000}}

LumpPanel(kind) ==
    \E d \in PanelSheets :
        LET made == PanelMasses(kind, d)
        IN  /\ pc = "start"
            /\ params' = d
            /\ dom' = [dom EXCEPT !.mass = [kind |-> kind, calls |-> made.calls],
                               !.coord = [i \in PanelSeams(d) |-> PanelZ(kind, d, i)]]
            /\ IF made.err # NoErr THEN Raise(made.err)
               ELSE pc' = "p_done" /\ err' = err
            /\ UNCHANGED <<loadVars, ns, girder1_n, dupOK, plan, call, gi, buildNo, req,
                           crossbeams, stages, status, out>>

\* Analysis.deck(1, thickness1, E_deck1, ...)
LumpDeck == LumpPanel("deck")

\* Analysis.pavement(3, pave_thick, pave_E, ...)
LumpPavement == LumpPanel("pavement")

PanelNext ==
    \/ LumpDeck
    \/ LumpPavement

PanelSpec == Init /\ [][PanelNext]_vars

\* C21: once deck() or pavement() has returned, every grid node has received
\* exactly one mass, equal to the sum over the one to four shell elements next
\* to it of a quarter of the element's mass (longitudinal spacing x transverse
\* spacing x band thickness, per unit of density), and the nodal masses add up
\* to the mass of the whole panel
C21_QuarterOfEachAdjacentElement ==
    pc = "p_done" =>
        LET d == params
            kind == dom.mass.kind
            calls == dom.mass.calls
            seams == slab_spacings(d)
            found == slab_found_indices(d)
            division == Division(d.girder_length)
            grid == (0..(Len(seams) - 1)) \X (0..division)
            \* the element between seams s, s+1 and stations j, j+1
            element(s, j) ==
                RMul(RMul(BandThickness(kind, d, BandOf(found, s)),
                          Rat(d.girder_length, division)),
                     RI(seams[s + 2] - seams[s + 1]))
            adjacent(n) == {e \in (0..(Len(seams) - 2)) \X (0..(division - 1)) :
                              n[1] - e[1] \in {0, 1} /\ n[2] - e[2] \in {0, 1}}
            quarter == [e \in (0..(Len(seams) - 2)) \X (0..(division - 1)) |->
                            RDiv(element(e[1], e[2]), RI(4))]
            given(i, j) == (CHOOSE c \in calls : c.i = i /\ c.j = j).m
            \* sums taken line by line
            nodal == [i \in 0..(Len(seams) - 1) |->
                        RSum([j \in 0..division |-> given(i, j)], 0..division)]
            whole == [i \in 0..(Len(seams) - 2) |->
                        RSum([j \in 0..(division - 1) |-> element(i, j)], 0..(division - 1))]
        IN  /\ \A n \in grid :
                  /\ Cardinality({c \in calls : c.tag = PanelTag(IF kind = "deck" THEN 1 ELSE 3, n[1], n[2])}) = 1
                  /\ Cardinality(adjacent(n)) \in 1..4
                  /\ \E c \in calls :
                        /\ c.i = n[1] /\ c.j = n[2]
                        /\ c.m = RSum(quarter, adjacent(n))
            /\ Cardinality(calls) = Cardinality(grid)
            /\ RSum(nodal, DOMAIN nodal) = RSum(whole, DOMAIN whole)

\* a deck of two thickness bands and several strips has been given its masses,
\* an inner node collecting four quarters
C21_Witness ==
    /\ pc = "p_done"
    /\ dom.mass.kind = "deck"
    /\ Len(slab_found_indices(params)) >= 3
    /\ Division(params.girder_length) >= 3
    /\ \E c \in dom.mass.calls : c.i = 2 /\ c.j = 1 /\ c.m.n > 0

----------------------------------------------------------------------------
(* The tendon layers of Analysis.girder on their own *)

\* legacy_globals.py lines 39 and 42, the values a caller injects for the
\* names girder() reads from the module namespace
z_coef_list == <<1500, 1086, 700, 294>>
number_tendon == 4

\* lines 90-94: sec[0] and sec[2], the lower and upper z of the five patches
Patches(d) ==
    LET h1 == Get(d, "h1", 0)
        h2 == Get(d, "h2", 0)
        h3 == Get(d, "h3", 0)
        h4 == Get(d, "h4", 0)
        h5 == Get(d, "h5", 0)
    IN  << [lo |-> -h1, hi |-> 0],
           [lo |-> -h1 - h2, hi |-> -h1],
           [lo |-> -h1 - h3 + h4, hi |-> -h1 - h2],
           [lo |-> -h1 - h3, hi |-> -h1 - h3 + h4],
           [lo |-> -h1 - h3 - h5, hi |-> -h1 - h3] >>

\* lines 168-171: z = coefficient * x ** 2 + intercept
tendon_profile_vertical(x, coefficient, intercept) ==
    RAdd(RMul(coefficient, RMul(x, x)), RI(intercept))

\* line 178: a_coef = (z_coef_list - z_intercept_list) / length / length
a_coef(d, k) ==
    LET length == Get(d, "tendon_horizontal_length", d.girder_length)
    IN  Rat(z_coef_list[k] - d.z_intercept_list[k], length * length)

\* line 196: sec[0] < z < sec[2]
InPatch(sec, z) == RLt(RI(sec.lo), z) /\ RLt(z, RI(sec.hi))

\* lines 181-201: at every station, for every patch and tendon, one straight
\* layer at the profile's position, with the tendon's area if the position is
\* inside the patch and with area 0 otherwise
TendonLayers(d) ==
    LET L == d.girder_length
        division == Division(L)
    IN  { [station |-> i, patch |-> q, tendon |-> k,
           z |-> RSub(tendon_profile_vertical(RSub(Rat(L * i, division), Rat(L, 2)),
                                              a_coef(d, k), d.z_intercept_list[k]),
                      RI(Get(d, "girder_H", 0))),
           area |-> IF InPatch(Patches(d)[q],
                               RSub(tendon_profile_vertical(RSub(Rat(L * i, division), Rat(L, 2)),
                                                            a_coef(d, k), d.z_intercept_list[k]),
                                    RI(Get(d, "girder_H", 0))))
                    THEN d.Ap_N[k] ELSE RI(0)] :
          i \in 0..division, q \in 1..5, k \in 1..number_tendon }

\* line 178 with lists of different lengths: numpy cannot broadcast them
TendonError(d) ==
    IF Len(Get(d, "z_intercept_list", <<>>)) \notin {1, Len(z_coef_list)}
    THEN Exc("ValueError", "broadcast")
    ELSE IF Len(Get(d, "z_intercept_list", <<>>)) < number_tendon \/ Len(Get(d, "Ap_N", <<>>)) < number_tendon
    THEN Exc("IndexError", "")
    ELSE NoErr

\* defaults_base.py line 19: section and tendon entries of the default ParameterSet
SectionDefaults ==
    [ h1 |-> 170, h2 |-> 200, h3 |-> 1600, h4 |-> 200, h5 |-> 230, girder_H |-> 2000,
      z_intercept_list |-> <<200, 80, 80, 80>>,
      Ap_N |-> Repeat(Rat(60324, 100), 4) ]

\* resolved ParameterSets: the default section on a short span, the same with
\* a deeper tendon anchorage list, with girder_H left out, with the tendon
\* lists left out, and with the default anchorage length
TendonSheets ==
    LET sheet(L) == Update(Update(make_params("baseline"), SectionDefaults),
                           Update(GeometrySheet(2, L), [tendon_horizontal_length |-> L \div 2]))
    IN  UNION { { sheet(L),
                  Update(sheet(L), [z_intercept_list |-> <<200, 230, 80, 80>>]),
                  Update(sheet(L), [tendon_horizontal_length |-> 14800]),
                  Without(sheet(L), {"girder_H"}),
                  Without(sheet(L), {"z_intercept_list", "Ap_N"}) } : L \in {400, 1000, 2000} }

\* Analysis.girder(girder_number, Ec, Pe, spacing), lines 178-201
LayTendons ==
    \E d \in TendonSheets, g \in 1..MaxGirderNumber :
        /\ pc = "start"
        /\ params' = d
        /\ gi' = g
        /\ IF TendonError(d) # NoErr
           THEN Raise(TendonError(d)) /\ UNCHANGED dom
           ELSE /\ dom' = [dom EXCEPT !.layers = TendonLayers(d)]
                /\ pc' = "t_done"
                /\ err' = err
        /\ UNCHANGED <<loadVars, ns, girder1_n, dupOK, plan, call, buildNo, req,
                       crossbeams, stages, status, out>>

TendonNext == LayTendons

TendonSpec == Init /\ [][TendonNext]_vars

\* C22 (as stated): girder() does not get through its sections with a tendon
\* whose profile position lies outside every patch of the section; such a
\* position ends the call with a configuration error
C22_OutsideEveryPatchIsError ==
    pc = "t_done" =>
        \A l \in dom.layers : \E q \in 1..5 : InPatch(Patches(params)[q], l.z)

\* C23 (as stated): along every seam the pavement nodes lie above the deck
\* nodes by the deck's half thickness there plus a clearance that is the same
\* at every seam, whatever the deck thickness profile
C23_PavementClearanceFixed ==
    (pc = "p_done" /\ dom.mass.kind = "pavement") =>
        LET deck_z(s) == PanelZ("deck", params, s)
            half(s) == PanelZ("deck", params, s)
            clearance(s) == RSub(RSub(dom.coord[s], deck_z(s)), half(s))
        IN  \A s \in DOMAIN dom.coord, t \in DOMAIN dom.coord : clearance(s) = clearance(t)

\* C24 (as stated): a build takes every input from its ParameterSet and none
\* from the namespace of the builder module: no build ends on a name that the
\* module does not bind, and the links of a finished build span the stations
\* that the ParameterSet's girder_length gives, whatever object the namespace
\* holds under the name girder1
C24_NoModuleLevelInput ==
    /\ ~(pc = "raised" /\ err.type = "NameError")
    /\ pc = "b_return" => \A l \in dom.links : l.n \in {1, imax(params)}

\* C25 (as stated): whichever way a ParameterSet is resolved, make_params or
\* load_params_from_excel in multiplier mode, its Bearing_Stiffness is the
\* table of the raw stiffness constants with bearing_multiplier applied once
\* (to the rows of the first abutment); the table make_params("baseline")
\* starts from is not scaled again on its way through a workbook
C25_MultiplierAppliedOnce ==
    (pc = "call" /\ call.fn \in {"make_params", "load_params_from_excel"}) =>
        params.Bearing_Stiffness = BearingTable(params.bearing_multiplier)

\* C26 (as stated): for every built-in case label make_params supplies each key
\* that build_bridge_model reads in the shape it needs (a girder_spacing that
\* converts to a scalar, an offset for every girder, enough E_girder1 entries
\* and bearing rows), so that no build of such a ParameterSet ends on a
\* conversion, a missing key or an index out of range
C26_BuiltInCasesBuildable ==
    (\E case \in DOMAIN CASE_OVERRIDES : params = make_params(case)) =>
        ~(pc = "raised" /\ err.type \in {"TypeError", "KeyError", "IndexError"})

\* C27 (as stated): in a built model no node is the constrained node of one
\* rigid link and the retained node of another
C27_NoChainedRigidLinks ==
    pc = "b_return" =>
        LET retained == UNION {{l.r + j : j \in 0..(l.n - 1)} : l \in dom.links}
            constrained == UNION {{l.c + j : j \in 0..(l.n - 1)} : l \in dom.links}
        IN  retained \cap constrained = {}

\* C28 (as stated): the two tag arrays the moving-load engine works on are the
\* whole girder lines their start tags belong to, the division + 1 tags
\* 1000*g + 1 .. 1000*g + division + 1 in increasing order and no tag of
\* anything else, and each recorder sits on the middle node of its line
C28_TagArraysAreWholeGirderLines ==
    pc = "v_analyze" =>
        LET g == Geometry(dom, params, call)
            whole(first) == [k \in 1..imax(params) |-> GirderTag(first \div 1000, k - 1)]
        IN  /\ g.girder3 = whole(g.girder3[1])
            /\ g.girder4 = whole(g.girder4[1])
            /\ {r.node : r \in dom.recorders}
                   = {MidNode(whole(g.girder3[1])), MidNode(whole(g.girder4[1]))}

\* C29 (as stated): within a run the time-series tags 1000 * girder_id + node
\* of the histories that are submitted are pairwise distinct over the nodes of
\* both loaded lines, and so are the pattern tags 2000 * girder_id + node
C29_SeriesAndPatternTagsDistinct ==
    pc = "v_analyze" =>
        LET submitted == {<<3, nd>> : nd \in DOMAIN Pruned(hist.g3)}
                            \cup {<<4, nd>> : nd \in DOMAIN Pruned(hist.g4)}
        IN  \A a \in submitted, b \in submitted :
                a # b => /\ 1000 * a[1] + a[2] # 1000 * b[1] + b[2]
                         /\ 2000 * a[1] + a[2] # 2000 * b[1] + b[2]

\* C30 (as stated): when run_moving_load gets to read or return the two CSV
\* paths, every transient step has run and the recorders' rows have reached
\* the files: each file holds one row per time sample
C30_FilesCompleteWhenReturned ==
    pc = "v_return" =>
        \A r \in dom.recorders :
            /\ r.written = Geometry(dom, params, call).n_steps
            /\ r.on_disk = r.written

====
